---- MODULE Spec2Model ----
(***************************************************************************)
(* PromptViz: the flowchart-DSL <-> typed-graph engine.                    *)
(*                                                                         *)
(*   determineNodeType, parseLine, parseMermaidToReactFlow                 *)
(*       (utils/mermaidToReactFlow.ts)                                     *)
(*   nodeTypeToMermaidSyntax, reactFlowToMermaid                           *)
(*       (utils/reactFlowToPromptFormat.ts)                                *)
(*   sanitizeMermaidCode (components/DiagramCanvas.tsx)                    *)
(*                                                                         *)
(* A JavaScript string is a sequence of one-character strings; every       *)
(* regular expression of the source is translated into the positions its   *)
(* backtracking matcher tries, in the order it tries them.                 *)
(***************************************************************************)
EXTENDS Integers, Sequences, FiniteSets, TLC

VARIABLES
    pc,              \* position in the pipeline
    nodeDefinition,  \* argument of determineNodeType
    classified,      \* value returned by determineNodeType
    graph,           \* the {nodes, edges} handed to reactFlowToMermaid
    mermaidCode,     \* the text handed to parseMermaidToReactFlow
    lineNo,          \* lines.forEach: index of the next line
    nodesMap,        \* Map<string, ParsedNode>, in insertion order
    parsedEdges,     \* ParsedEdge[]
    result,          \* the ParseResult returned
    rawCode,         \* codeToRender, the text handed to sanitizeMermaidCode
    sanitizedCode,   \* sanitizeMermaidCode(rawCode)
    resanitizedCode, \* sanitizeMermaidCode(sanitizedCode)
    editorNodes,     \* ReactFlowDiagram: nodes of useNodesState, as [ref, items]
    editorEdges,     \* ReactFlowDiagram: edges of useEdgesState, as [ref, items]
    history,         \* ReactFlowDiagram: DiagramState[] for undo/redo
    historyIndex,    \* ReactFlowDiagram: index into history, from 0
    isUndoRedoAction,    \* ReactFlowDiagram: isUndoRedoAction.current
    initialGraph,    \* ReactFlowDiagram: {initialNodes, initialEdges} of useMemo
    effectDeps,      \* dependencies each effect saw when it last ran
    timers,          \* pending setTimeout callbacks of handleDeleteSelected
    now,             \* Date.now()
    handled,         \* user events the editor has handled
    currentDiagramState, \* DiagramCanvas: <<>> for null, else <<state>>
    isModified,      \* DiagramCanvas: isModified
    generationState, \* App: generationState
    viewMode,        \* App: viewMode
    pending          \* App: generation requests awaiting their response

pipelineVars == <<nodeDefinition, classified, graph, lineNo, nodesMap, parsedEdges,
                  result, rawCode, sanitizedCode, resanitizedCode>>

editorVars == <<editorNodes, editorEdges, history, historyIndex, isUndoRedoAction, initialGraph,
                effectDeps, timers, now, handled, currentDiagramState, isModified>>

appVars == <<generationState, viewMode, pending>>

vars == <<pc, mermaidCode, pipelineVars, editorVars, appVars>>

(***************************************************************************)
(* Bounds of the model.                                                    *)
(***************************************************************************)
MaxLabelLen == 2

\* lines of a text handed to the parser
MaxLines == 2

\* nodes and edges of a graph handed to the serializer
MaxNodes == 2

MaxEdges == 1

\* lines of a text handed to the sanitizer
MaxRawLines == 2

\* nodes and edges of a graph handed to the serializer on its own
MaxSerNodes == 2

MaxSerEdges == 2

(***************************************************************************)
(* Characters and strings.                                                 *)
(***************************************************************************)
None == <<"none">>        \* a value no string equals (idle variable)
undefined == <<"undefined">>

\* no ReactFlowDiagram is mounted
EditorUnmounted ==
    /\ editorNodes = None /\ editorEdges = None /\ history = <<>> /\ historyIndex = 0
    /\ isUndoRedoAction = FALSE /\ initialGraph = None /\ effectDeps = None
    /\ timers = <<>> /\ now = 0 /\ handled = 0
    /\ currentDiagramState = <<>> /\ isModified = FALSE

\* no App is mounted
AppUnmounted == generationState = None /\ viewMode = None /\ pending = <<>>

UpperChars ==
    {"A","B","C","D","E","F","G","H","I","J","K","L","M",
     "N","O","P","Q","R","S","T","U","V","W","X","Y","Z"}

WordChars ==
    UpperChars \cup
    {"a","b","c","d","e","f","g","h","i","j","k","l","m",
     "n","o","p","q","r","s","t","u","v","w","x","y","z",
     "0","1","2","3","4","5","6","7","8","9","_"}

SpaceChars == {" ", "\t", "\n", "\r", "\f"}

LineTerminators == {"\n", "\r"}

SetMin(S) == CHOOSE x \in S : \A y \in S : x <= y

SetMax(S) == CHOOSE x \in S : \A y \in S : y <= x

RECURSIVE Concat(_)
Concat(ss) == IF ss = <<>> THEN <<>> ELSE Head(ss) \o Concat(Tail(ss))

\* the last position of the run of characters of class that starts at i
\* (i - 1 when s[i] is not of the class)
RECURSIVE RunEnd(_, _, _)
RunEnd(s, i, class) ==
    IF i > Len(s) \/ s[i] \notin class THEN i - 1 ELSE RunEnd(s, i + 1, class)

\* the first position of the run of characters of class that ends at i
RECURSIVE RunStart(_, _, _)
RunStart(s, i, class) ==
    IF i < 1 \/ s[i] \notin class THEN i + 1 ELSE RunStart(s, i - 1, class)

\* String.prototype.trim
Trim(s) ==
    LET first == RunEnd(s, 1, SpaceChars) + 1
    IN  IF first > Len(s) THEN <<>>
        ELSE SubSeq(s, first, RunStart(s, Len(s), SpaceChars) - 1)

\* the first position >= from that holds c; 0 when there is none
RECURSIVE IndexOf(_, _, _)
IndexOf(t, c, from) ==
    IF from > Len(t) THEN 0
    ELSE IF t[from] = c THEN from
    ELSE IndexOf(t, c, from + 1)

\* String.prototype.startsWith
StartsWith(s, p) == Len(s) >= Len(p) /\ SubSeq(s, 1, Len(p)) = p

EndsWith(s, p) == Len(s) >= Len(p) /\ SubSeq(s, Len(s) - Len(p) + 1, Len(s)) = p

\* s has t at position i (1-based)
HasAt(s, i, t) == i >= 1 /\ i + Len(t) - 1 <= Len(s) /\ SubSeq(s, i, i + Len(t) - 1) = t

\* String.prototype.includes
Includes(s, t) == \E i \in 1..Len(s) : HasAt(s, i, t)

\* the regular expression's `.`: any character but a line terminator
NoLineTerminator(s) == \A i \in 1..Len(s) : s[i] \notin LineTerminators

\* all strings over the alphabet of length lo..hi
StringsOver(alphabet, lo, hi) ==
    UNION {[1..n -> alphabet] : n \in lo..hi}

(***************************************************************************)
(* determineNodeType.  Every pattern is /^open(.+?)close$/: anchored at    *)
(* both ends the lazy group has one possible extent, all of the text       *)
(* between the two delimiters, which must be non-empty.                    *)
(***************************************************************************)
Delimited(d, open, close) ==
    /\ Len(d) >= Len(open) + Len(close) + 1
    /\ StartsWith(d, open)
    /\ EndsWith(d, close)
    /\ NoLineTerminator(SubSeq(d, Len(open) + 1, Len(d) - Len(close)))

Inner(d, open, close) == SubSeq(d, Len(open) + 1, Len(d) - Len(close))

Typed(type, d, open, close) == [type |-> type, label |-> Trim(Inner(d, open, close))]

\* a fallback that returns no node type
NoBracketsUntyped(d) == [type |-> "undefined", label |-> d]

\* no pattern matched: the text itself, trimmed, is the label
NoBrackets(d) == [type |-> "rectangle", label |-> Trim(d)]

determineNodeType(d) ==
    IF Delimited(d, <<"{">>, <<"}">>)
        THEN Typed("diamond", d, <<"{">>, <<"}">>)
    ELSE IF Delimited(d, <<"{","{">>, <<"}","}">>)
        THEN Typed("hexagon", d, <<"{","{">>, <<"}","}">>)
    ELSE IF Delimited(d, <<"(","[">>, <<"]",")">>)
        THEN Typed("rounded", d, <<"(","[">>, <<"]",")">>)
    ELSE IF Delimited(d, <<"(">>, <<")">>)
        THEN Typed("rounded", d, <<"(">>, <<")">>)
    ELSE IF Delimited(d, <<"[","/">>, <<"/","]">>)
        THEN Typed("parallelogram", d, <<"[","/">>, <<"/","]">>)
    ELSE IF Delimited(d, <<"[","\\">>, <<"\\","]">>)
        THEN Typed("parallelogram", d, <<"[","\\">>, <<"\\","]">>)
    ELSE IF Delimited(d, <<"[","(">>, <<")","]">>)
        THEN Typed("cylinder", d, <<"[","(">>, <<")","]">>)
    ELSE IF Delimited(d, <<"(","(">>, <<")",")">>)
        THEN Typed("circle", d, <<"(","(">>, <<")",")">>)
    ELSE IF Delimited(d, <<"[">>, <<"]">>)
        THEN Typed("rectangle", d, <<"[">>, <<"]">>)
    ELSE NoBrackets(d)

(***************************************************************************)
(* The node table: a JavaScript Map keeps its keys in insertion order and  *)
(* set() on a present key replaces the value in place.                     *)
(***************************************************************************)
MapHas(map, id) == \E i \in 1..Len(map) : map[i].id = id

MapGet(map, id) == map[CHOOSE i \in 1..Len(map) : map[i].id = id]

MapSet(map, node) ==
    IF MapHas(map, node.id)
        THEN [i \in 1..Len(map) |-> IF map[i].id = node.id THEN node ELSE map[i]]
        ELSE Append(map, node)

ParsedNode(id, label, type) == [id |-> id, label |-> label, type |-> type]

(***************************************************************************)
(* Pieces shared by the regular expressions of parseLine.                  *)
(***************************************************************************)
Closer(c) == IF c = "[" THEN "]" ELSE IF c = "{" THEN "}" ELSE ")"

Openers == {"[", "{", "("}

\* the characters of t
AnyChar(t) == {t[i] : i \in 1..Len(t)}

\* (\w+) at position i: the greedy run; no shorter run can be followed by
\* anything the patterns allow next (a bracket, a space, an arrow, the end).
WordRunEnd(t, i) == RunEnd(t, i, WordChars)

\* \s* at position i (greedy): the last position of the run of white space
SpaceRunEnd(t, i) == RunEnd(t, i, SpaceChars)

\* \[.*?\]|\{.*?\}|\(.*?\) with its opening bracket at position p: the
\* positions at which the group can end (the lazy .*? tries them upwards)
BracketEnds(t, p) ==
    IF p > Len(t) \/ t[p] \notin Openers THEN {}
    ELSE {k \in (p + 1)..(RunEnd(t, p + 1, AnyChar(t) \ LineTerminators) + 1) :
            k <= Len(t) /\ t[k] = Closer(t[p])}

(***************************************************************************)
(* nodeDefPattern = /(\w+)(\[.*?\]|\{.*?\}|\(.*?\))/g, run with exec()     *)
(* until it returns null: the leftmost match at or after lastIndex, the    *)
(* bracket group ending at the first closing bracket.                      *)
(***************************************************************************)
NodeDefStarts(t, from) ==
    {i \in from..Len(t) :
        /\ t[i] \in WordChars
        /\ BracketEnds(t, WordRunEnd(t, i) + 1) # {}}

NodeDefMatch(t, from) ==
    LET i == SetMin(NodeDefStarts(t, from))
        j == WordRunEnd(t, i)
        k == SetMin(BracketEnds(t, j + 1))
    IN  [nodeId |-> SubSeq(t, i, j), nodeDefinition |-> SubSeq(t, j + 1, k), lastIndex |-> k + 1]

\* RegisterNode without the has() test: the last declaration wins
RegisterNodeLastWins(map, nodeId, def) ==
    MapSet(map, ParsedNode(nodeId, determineNodeType(def).label,
                           determineNodeType(def).type))

\* if (!nodesMap.has(nodeId)) nodesMap.set(nodeId, {id, label, type})
RegisterNode(map, nodeId, def) ==
    IF MapHas(map, nodeId) THEN map
    ELSE MapSet(map, ParsedNode(nodeId, determineNodeType(def).label,
                                determineNodeType(def).type))

RECURSIVE ScanNodeDefs(_, _, _)
ScanNodeDefs(t, from, map) ==
    IF NodeDefStarts(t, from) = {} THEN map
    ELSE LET m == NodeDefMatch(t, from)
         IN  ScanNodeDefs(t, m.lastIndex, RegisterNode(map, m.nodeId, m.nodeDefinition))

(***************************************************************************)
(* The six edgePatterns.  Each is anchored at both ends and begins         *)
(*     ^(\w+)(?:\[.*?\]|\{.*?\}|\(.*?\))?\s*                               *)
(* and ends                                                                *)
(*     \s*(\w+)(?:\[.*?\]|\{.*?\}|\(.*?\))?$                               *)
(* The matcher first tries the source's bracket group ending at each       *)
(* closing bracket in turn, then without the group; SrcRank orders them.   *)
(***************************************************************************)
SrcEnds(t) ==
    LET s == WordRunEnd(t, 1)
    IN  IF s < 1 THEN {} ELSE BracketEnds(t, s + 1) \cup {s}

SrcRank(t, e) == IF e = WordRunEnd(t, 1) THEN Len(t) + 1 ELSE e

\* \s*(\w+)(?:...)?$ with the white space starting at position i
TargetStart(t, i) == SpaceRunEnd(t, i) + 1

TargetOK(t, i) ==
    LET b == TargetStart(t, i)
        r == WordRunEnd(t, b)
    IN  /\ r >= b
        /\ \/ r = Len(t)
           \/ Len(t) \in BracketEnds(t, r + 1)

TargetId(t, i) == SubSeq(t, TargetStart(t, i), WordRunEnd(t, TargetStart(t, i)))

SourceId(t) == SubSeq(t, 1, WordRunEnd(t, 1))

\* source \s* arrow \s* target, arrow one of -->, -.->, ==>
BareCands(t, arrow) ==
    {e \in SrcEnds(t) :
        LET a == SpaceRunEnd(t, e + 1)
        IN  /\ HasAt(t, a + 1, arrow)
            /\ TargetOK(t, a + Len(arrow) + 1)}

BareMatch(t, arrow) ==
    LET C == BareCands(t, arrow)
        e == CHOOSE c \in C : \A d \in C : SrcRank(t, c) <= SrcRank(t, d)
        a == SpaceRunEnd(t, e + 1)
    IN  <<SourceId(t), TargetId(t, a + Len(arrow) + 1)>>

\* source \s* arrow\|(.+?)\| \s* target, arrow one of -->, -.->
\* <<e, l>>: the source side ends at e, the closing | is at l
PipeFrom(t, arrow, e) ==
    LET a == SpaceRunEnd(t, e + 1)
        ls == a + Len(arrow) + 2
    IN  IF ~HasAt(t, a + 1, arrow \o <<"|">>) THEN {}
        ELSE {c \in {e} \X ((ls + 1)..Len(t)) :
                /\ t[c[2]] = "|"
                /\ NoLineTerminator(SubSeq(t, ls, c[2] - 1))
                /\ TargetOK(t, c[2] + 1)}

PipeCands(t, arrow) == UNION {PipeFrom(t, arrow, e) : e \in SrcEnds(t)}

PipeBefore(t, c, d) ==
    \/ SrcRank(t, c[1]) < SrcRank(t, d[1])
    \/ c[1] = d[1] /\ c[2] <= d[2]

PipeMatch(t, arrow) ==
    LET C == PipeCands(t, arrow)
        c == CHOOSE x \in C : \A d \in C : PipeBefore(t, x, d)
        a == SpaceRunEnd(t, c[1] + 1)
    IN  <<SourceId(t), SubSeq(t, a + Len(arrow) + 2, c[2] - 1), TargetId(t, c[2] + 1)>>

\* source \s*--\s*(.+?)\s*-->\s* target
\* <<e, ls, le>>: the source side ends at e, the label is t[ls..le]; the
\* greedy \s* before the label gives white space back only when it must
DashFrom(t, e) ==
    LET a == SpaceRunEnd(t, e + 1)
        starts == (a + 3)..(SpaceRunEnd(t, a + 3) + 1)
        ends == {le \in (a + 3)..Len(t) :
                    LET k == SpaceRunEnd(t, le + 1)
                    IN  HasAt(t, k + 1, <<"-","-",">">>) /\ TargetOK(t, k + 4)}
    IN  IF ~HasAt(t, a + 1, <<"-","-">>) THEN {}
        ELSE {c \in {e} \X starts \X ends :
                c[3] >= c[2] /\ NoLineTerminator(SubSeq(t, c[2], c[3]))}

DashCands(t) == UNION {DashFrom(t, e) : e \in SrcEnds(t)}

DashBefore(t, c, d) ==
    \/ SrcRank(t, c[1]) < SrcRank(t, d[1])
    \/ c[1] = d[1] /\ c[2] > d[2]
    \/ c[1] = d[1] /\ c[2] = d[2] /\ c[3] <= d[3]

DashMatch(t) ==
    LET C == DashCands(t)
        c == CHOOSE x \in C : \A d \in C : DashBefore(t, x, d)
    IN  <<SourceId(t), SubSeq(t, c[2], c[3]), TargetId(t, SpaceRunEnd(t, c[3] + 1) + 4)>>

Solid == <<"-","-",">">>

Dotted == <<"-",".","-",">">>

Thick == <<"=","=",">">>

\* for (i = 0; i < edgePatterns.length; i++): the first pattern that
\* matches; <<>> when none does.  Three groups carry a label, two do not.
EdgeMatch(t) ==
    IF PipeCands(t, Solid) # {} THEN PipeMatch(t, Solid)
    ELSE IF DashCands(t) # {} THEN DashMatch(t)
    ELSE IF PipeCands(t, Dotted) # {} THEN PipeMatch(t, Dotted)
    ELSE IF BareCands(t, Solid) # {} THEN BareMatch(t, Solid)
    ELSE IF BareCands(t, Dotted) # {} THEN BareMatch(t, Dotted)
    ELSE IF BareCands(t, Thick) # {} THEN BareMatch(t, Thick)
    ELSE <<>>

(***************************************************************************)
(* parseLine(line, nodesMap, edges)                                        *)
(***************************************************************************)
Digit(n) == <<"0","1","2","3","4","5","6","7","8","9">>[n + 1]

\* the decimal form of a number, as a template literal writes it
RECURSIVE NumberToString(_)
NumberToString(n) ==
    IF n < 10 THEN <<Digit(n)>> ELSE NumberToString(n \div 10) \o <<Digit(n % 10)>>

FLOWCHART == <<"f","l","o","w","c","h","a","r","t">>

GRAPH == <<"g","r","a","p","h">>

SUBGRAPH == <<"s","u","b","g","r","a","p","h">>

END == <<"e","n","d">>

STYLE == <<"s","t","y","l","e">>

CLASSDEF == <<"c","l","a","s","s","D","e","f">>

CLASS_ == <<"c","l","a","s","s"," ">>

SkippedLine(t) ==
    \/ t = <<>>
    \/ StartsWith(t, <<"%","%">>)
    \/ StartsWith(t, FLOWCHART)
    \/ StartsWith(t, GRAPH)
    \/ StartsWith(t, SUBGRAPH)
    \/ t = END
    \/ StartsWith(t, STYLE)
    \/ StartsWith(t, CLASSDEF)
    \/ StartsWith(t, CLASS_)

ParsedEdge(sourceId, targetId, edgeLabel, n, isDotted) ==
    [id |-> Concat(<<<<"e","-">>, sourceId, <<"-">>, targetId, <<"-">>, NumberToString(n)>>),
     source |-> sourceId,
     target |-> targetId,
     label |-> edgeLabel,
     animated |-> isDotted]

\* EnsureNode that synthesizes nothing
EnsureNodeSkip(map, id) == map

\* if (!nodesMap.has(id)) nodesMap.set(id, {id, label: id, type: 'rectangle'})
EnsureNode(map, id) ==
    IF MapHas(map, id) THEN map ELSE MapSet(map, ParsedNode(id, id, "rectangle"))

\* /^(\w+)(\[.*?\]|\{.*?\}|\(.*?\))$/: the whole line is one id and one
\* bracket group, which anchored by $ runs to the last character
StandaloneNode(t) ==
    LET s == WordRunEnd(t, 1)
    IN  s >= 1 /\ Len(t) \in BracketEnds(t, s + 1)

\* the state of (nodesMap, edges) when parseLine returns
parseLine(line, map, edges) ==
    LET trimmedLine == Trim(line)
        scanned == ScanNodeDefs(trimmedLine, 1, map)
        match == EdgeMatch(trimmedLine)
        sourceId == match[1]
        targetId == match[Len(match)]
        edgeLabel == IF Len(match) = 3 THEN match[2] ELSE undefined
        isDotted == Includes(trimmedLine, <<"-",".","-">>)
        s == WordRunEnd(trimmedLine, 1)
    IN  IF SkippedLine(trimmedLine)
            THEN [nodesMap |-> map, edges |-> edges]
        ELSE IF match # <<>>
            THEN [nodesMap |-> EnsureNode(EnsureNode(scanned, sourceId), targetId),
                  edges |-> Append(edges, ParsedEdge(sourceId, targetId, edgeLabel,
                                                     Len(edges), isDotted))]
        ELSE IF StandaloneNode(trimmedLine)
            THEN [nodesMap |-> RegisterNode(scanned, SubSeq(trimmedLine, 1, s),
                                            SubSeq(trimmedLine, s + 1, Len(trimmedLine))),
                  edges |-> edges]
        ELSE [nodesMap |-> scanned, edges |-> edges]

(***************************************************************************)
(* parseMermaidToReactFlow(mermaidCode)                                    *)
(***************************************************************************)
\* String.prototype.split('\n')
RECURSIVE Split(_)
Split(s) ==
    LET nl == IndexOf(s, "\n", 1)
    IN  IF nl = 0 THEN <<s>>
        ELSE <<SubSeq(s, 1, nl - 1)>> \o Split(SubSeq(s, nl + 1, Len(s)))

\* Array.prototype.join('\n')
RECURSIVE Join(_)
Join(ls) ==
    IF ls = <<>> THEN <<>>
    ELSE IF Len(ls) = 1 THEN ls[1]
    ELSE ls[1] \o <<"\n">> \o Join(Tail(ls))

\* lines.forEach(line => parseLine(line, nodesMap, parsedEdges)) after the
\* first k lines
RECURSIVE ParseLines(_, _)
ParseLines(lines, k) ==
    IF k = 0 THEN [nodesMap |-> <<>>, edges |-> <<>>]
    ELSE LET before == ParseLines(lines, k - 1)
         IN  parseLine(lines[k], before.nodesMap, before.edges)

Min2(a, b) == IF a <= b THEN a ELSE b

Max2(a, b) == IF a >= b THEN a ELSE b

\* getNodeDimensions
getNodeDimensions(node) ==
    [width |-> Min2(Max2(150, Len(node.label) * 8 + 40), 300),
     height |-> IF node.type = "diamond" THEN 80 ELSE 50]

\* applyLayout without the coordinates dagre computes: id, type,
\* data.label and the style's width and height
applyLayout(nodes, edges) ==
    [i \in 1..Len(nodes) |->
        [id |-> nodes[i].id,
         type |-> nodes[i].type,
         label |-> nodes[i].label,
         width |-> getNodeDimensions(nodes[i]).width,
         height |-> getNodeDimensions(nodes[i]).height]]

\* convertEdges without the constant style fields
convertEdges(edges) ==
    [i \in 1..Len(edges) |->
        [id |-> edges[i].id,
         source |-> edges[i].source,
         target |-> edges[i].target,
         label |-> edges[i].label,
         animated |-> edges[i].animated,
         type |-> "bezier"]]

NoCodeError == "No Mermaid code provided"

NoNodesError == "No valid nodes found in Mermaid code"

NoError == "undefined"

\* ParseResult without the test for an empty node table
ParseResultNeverFails(map, edges) ==
    [nodes |-> applyLayout(map, edges), edges |-> convertEdges(edges), error |-> NoError]

\* the ParseResult built from the node table and the edge list
ParseResult(map, edges) ==
    IF Len(map) = 0
        THEN [nodes |-> <<>>, edges |-> <<>>, error |-> NoNodesError]
        ELSE [nodes |-> applyLayout(map, edges), edges |-> convertEdges(edges),
              error |-> NoError]

parseMermaidToReactFlow(code) ==
    IF code = <<>>
        THEN [nodes |-> <<>>, edges |-> <<>>, error |-> NoCodeError]
        ELSE LET lines == Split(code)
                 parsed == ParseLines(lines, Len(lines))
             IN  ParseResult(parsed.nodesMap, parsed.edges)

(***************************************************************************)
(* nodeTypeToMermaidSyntax and reactFlowToMermaid.  A node of the graph    *)
(* is [id, type, label] (label is data.label), an edge is                  *)
(* [source, target, label, animated], label = undefined when absent.       *)
(***************************************************************************)
\* String.prototype.replace(/c/g, d) for one character c
ReplaceChar(s, c, d) == [i \in 1..Len(s) |-> IF s[i] = c THEN d ELSE s[i]]

\* an escape that rewrites the double quote only
EscapedLabelQuotesOnly(label) == ReplaceChar(label, "\"", "'")

\* label.replace(/"/g, "'").replace(/\[/g, '(').replace(/\]/g, ')')
EscapedLabel(label) ==
    ReplaceChar(ReplaceChar(ReplaceChar(label, "\"", "'"), "[", "("), "]", ")")

nodeTypeToMermaidSyntax(type, label) ==
    LET escapedLabel == EscapedLabel(label)
    IN  IF type = "diamond" THEN <<"{">> \o escapedLabel \o <<"}">>
        ELSE IF type = "rounded" THEN <<"(">> \o escapedLabel \o <<")">>
        ELSE IF type = "hexagon" THEN <<"{","{">> \o escapedLabel \o <<"}","}">>
        ELSE IF type = "parallelogram" THEN <<"[","/">> \o escapedLabel \o <<"/","]">>
        ELSE IF type = "cylinder" THEN <<"[","(">> \o escapedLabel \o <<")","]">>
        ELSE IF type = "circle" THEN <<"(","(">> \o escapedLabel \o <<")",")">>
        ELSE <<"[">> \o escapedLabel \o <<"]">>

Untitled == <<"U","n","t","i","t","l","e","d">>

Header == <<"f","l","o","w","c","h","a","r","t"," ","T","D">>

Indent == <<" "," "," "," ">>

EmptyDiagram ==
    Header \o <<"\n">> \o Indent \o
    <<"A","[","E","m","p","t","y"," ","D","i","a","g","r","a","m","]">>

\* nodeDefinitions.set(node.id, `${node.id}${syntax}`)
NodeDefinitionText(node) ==
    node.id \o nodeTypeToMermaidSyntax(node.type,
                                       IF node.label = <<>> THEN Untitled ELSE node.label)

HasDefinition(nodes, id) == \E i \in 1..Len(nodes) : nodes[i].id = id

\* nodeDefinitions.get(id): the Map keeps the last definition set for a key
GetDefinition(nodes, id) ==
    NodeDefinitionText(nodes[SetMax({i \in 1..Len(nodes) : nodes[i].id = id})])

\* an endpoint written with its declaration every time
EndpointPartDeclared(nodes, definedNodes, id) == GetDefinition(nodes, id)

\* sourcePart / targetPart: the bare id once the node is defined
EndpointPart(nodes, definedNodes, id) ==
    IF id \in definedNodes THEN id ELSE GetDefinition(nodes, id)

\* edges.forEach after the first k edges: the lines pushed and definedNodes
RECURSIVE EdgeLines(_, _, _)
EdgeLines(nodes, edges, k) ==
    IF k = 0 THEN [lines |-> <<>>, definedNodes |-> {}]
    ELSE LET before == EdgeLines(nodes, edges, k - 1)
             edge == edges[k]
             sourcePart == EndpointPart(nodes, before.definedNodes, edge.source)
             defined1 == before.definedNodes \cup {edge.source}
             targetPart == EndpointPart(nodes, defined1, edge.target)
             edgeLine ==
                 IF edge.label # undefined /\ edge.label # <<>>
                     THEN Concat(<<Indent, sourcePart, <<" ","-","-",">","|">>,
                                   ReplaceChar(edge.label, "\"", "'"), <<"|"," ">>, targetPart>>)
                     ELSE Concat(<<Indent, sourcePart, <<" ","-","-",">"," ">>, targetPart>>)
         IN  IF ~HasDefinition(nodes, edge.source) \/ ~HasDefinition(nodes, edge.target)
                 THEN before
                 ELSE [lines |-> Append(before.lines, edgeLine),
                       definedNodes |-> defined1 \cup {edge.target}]

\* an orphan loop that writes a line for every node
OrphanLinesAll(nodes, definedNodes, k) ==
    [i \in 1..k |-> Indent \o GetDefinition(nodes, nodes[i].id)]

\* the orphan loop: one line for every node not in definedNodes
RECURSIVE OrphanLines(_, _, _)
OrphanLines(nodes, definedNodes, k) ==
    IF k = 0 THEN <<>>
    ELSE OrphanLines(nodes, definedNodes, k - 1) \o
         (IF nodes[k].id \in definedNodes THEN <<>>
          ELSE <<Indent \o GetDefinition(nodes, nodes[k].id)>>)

reactFlowToMermaid(nodes, edges) ==
    IF Len(nodes) = 0 THEN EmptyDiagram
    ELSE LET e == EdgeLines(nodes, edges, Len(edges))
         IN  Join(<<Header>> \o e.lines \o OrphanLines(nodes, e.definedNodes, Len(nodes)))

(***************************************************************************)
(* sanitizeMermaidCode.  String.prototype.replace with a /g pattern        *)
(* replaces the leftmost match, then the leftmost match after it, and so   *)
(* on, never rescanning what it has written.                               *)
(***************************************************************************)
\* /\[([^\]]*)\(([^)]*)\)([^\]]*)\]/ with its [ at i: the positions of the
\* ( it can match, which lie before the first ] and have a ) and then a ]
\* after them; the greedy [^\]]* takes the last of them
ParenStarts(t, i) ==
    LET q == IndexOf(t, "]", i + 1)
    IN  IF t[i] # "[" \/ q = 0 THEN {}
        ELSE {p \in (i + 1)..(q - 1) :
                /\ t[p] = "("
                /\ IndexOf(t, ")", p + 1) # 0
                /\ IndexOf(t, "]", IndexOf(t, ")", p + 1) + 1) # 0}

ParenTest(t) == \E i \in 1..Len(t) : ParenStarts(t, i) # {}

\* one replace(/.../g, ...) of the parenthesis repair over t[from..]
\* a replace that leaves the parentheses where they are and adds the dash
ParenPassKeepsParens(t, from) == SubSeq(t, from, Len(t)) \o <<" ","-"," ">>

RECURSIVE ParenPass(_, _)
ParenPass(t, from) ==
    LET at == {i \in from..Len(t) : ParenStarts(t, i) # {}}
    IN  IF at = {} THEN SubSeq(t, from, Len(t))
        ELSE LET i == SetMin(at)
                 p == SetMax(ParenStarts(t, i))
                 c == IndexOf(t, ")", p + 1)
                 e == IndexOf(t, "]", c + 1)
                 before == SubSeq(t, i + 1, p - 1)
                 parenContent == SubSeq(t, p + 1, c - 1)
                 after == SubSeq(t, c + 1, e - 1)
             IN  Concat(<<SubSeq(t, from, i - 1), <<"[">>, before, Trim(after),
                          <<" ","-"," ">>, parenContent, <<"]">>, ParenPass(t, e + 1)>>)

\* the replace run once, without the while loop
ParenRepairOnce(t) == ParenPass(t, 1)

\* while (test) replace
RECURSIVE ParenRepair(_)
ParenRepair(t) == IF ParenTest(t) THEN ParenRepair(ParenPass(t, 1)) ELSE t

\* the grave accent, which a TLA+ string cannot hold
Backtick == "grave"

\* replace(/GGG/g, '') with G the grave accent
RECURSIVE RemoveFences(_, _)
RemoveFences(t, from) ==
    LET at == {i \in from..Len(t) : HasAt(t, i, <<Backtick, Backtick, Backtick>>)}
    IN  IF at = {} THEN SubSeq(t, from, Len(t))
        ELSE SubSeq(t, from, SetMin(at) - 1) \o RemoveFences(t, SetMin(at) + 3)

\* [A-Z]{2,} at position i (greedy): the last position of the run, which
\* is shorter than i + 1 when fewer than two capitals stand there
UpperRunEnd(t, i) == RunEnd(t, i, UpperChars)

\* \s*(\n|$) at position i: where the match ends, 0 when it cannot.  The
\* greedy \s* runs to the end of the white space; at the end of the text $
\* matches, otherwise it gives back up to the last \n of the run.
TailEnd(t, i) ==
    LET w == SpaceRunEnd(t, i)
        nl == {k \in i..w : t[k] = "\n"}
    IN  IF w = Len(t) THEN w
        ELSE IF nl # {} THEN SetMax(nl)
        ELSE 0

TailGroup(t, i) == IF SpaceRunEnd(t, i) = Len(t) THEN <<>> ELSE <<"\n">>

\* \s+([A-Z]{2,})\s*(\n|$) at position i: where the match ends, 0 if none
StrayEnd(t, i) ==
    LET w == SpaceRunEnd(t, i)
        u == UpperRunEnd(t, w + 1)
    IN  IF w >= i /\ u >= w + 2 THEN TailEnd(t, u + 1) ELSE 0

StrayGroup(t, i) == TailGroup(t, UpperRunEnd(t, SpaceRunEnd(t, i) + 1) + 1)

\* replace(/]\s+([A-Z]{2,})\s*(\n|$)/g, ']$2')
RECURSIVE StripAfterBracket(_, _)
StripAfterBracket(t, from) ==
    LET at == {i \in from..Len(t) : t[i] = "]" /\ StrayEnd(t, i + 1) # 0}
    IN  IF at = {} THEN SubSeq(t, from, Len(t))
        ELSE LET i == SetMin(at)
             IN  Concat(<<SubSeq(t, from, i), StrayGroup(t, i + 1),
                          StripAfterBracket(t, StrayEnd(t, i + 1) + 1)>>)

\* \]\s*([A-Z]{2,})\s*$ under /m with its ] at i: where the match ends, 0
\* if none.  $ stands at the end of the text and before a line terminator.
LineStrayEnd(t, i) ==
    LET w == SpaceRunEnd(t, i + 1)
        u == UpperRunEnd(t, w + 1)
        v == SpaceRunEnd(t, u + 1)
        ends == {k \in u..v : k = Len(t) \/ t[k + 1] \in LineTerminators}
    IN  IF t[i] = "]" /\ u >= w + 2 /\ ends # {} THEN SetMax(ends) ELSE 0

\* replace(/\]\s*([A-Z]{2,})\s*$/gm, ']')
RECURSIVE StripAtLineEnd(_, _)
StripAtLineEnd(t, from) ==
    LET at == {i \in from..Len(t) : LineStrayEnd(t, i) # 0}
    IN  IF at = {} THEN SubSeq(t, from, Len(t))
        ELSE LET i == SetMin(at)
             IN  SubSeq(t, from, i) \o StripAtLineEnd(t, LineStrayEnd(t, i) + 1)

\* (-->[^\[\n]*\[[^\]]+\]) with its arrow at i: the position of the ]
\* that ends the group, 0 if none
ArrowNodeEnd(t, i) ==
    LET q == IndexOf(t, "[", i + 3)
        r == IndexOf(t, "]", q + 1)
    IN  IF /\ HasAt(t, i, <<"-","-",">">>)
           /\ q # 0
           /\ \A k \in (i + 3)..(q - 1) : t[k] # "\n"
           /\ r >= q + 2
        THEN r ELSE 0

\* replace(/(-->[^\[\n]*\[[^\]]+\])\s+([A-Z]{2,})\s*(\n|$)/g, '$1$3')
RECURSIVE StripAfterArrowNode(_, _)
StripAfterArrowNode(t, from) ==
    LET at == {i \in from..Len(t) :
                 ArrowNodeEnd(t, i) # 0 /\ StrayEnd(t, ArrowNodeEnd(t, i) + 1) # 0}
    IN  IF at = {} THEN SubSeq(t, from, Len(t))
        ELSE LET i == SetMin(at)
                 r == ArrowNodeEnd(t, i)
             IN  Concat(<<SubSeq(t, from, r), StrayGroup(t, r + 1),
                          StripAfterArrowNode(t, StrayEnd(t, r + 1) + 1)>>)

Blanks == {" ", "\t"}

BlankRunEnd(t, i) == RunEnd(t, i, Blanks)

\* replace(/[ \t]{2,}/g, ' ')
RECURSIVE CollapseBlanks(_, _)
CollapseBlanks(t, from) ==
    LET at == {i \in from..Len(t) : BlankRunEnd(t, i) >= i + 1}
    IN  IF at = {} THEN SubSeq(t, from, Len(t))
        ELSE LET i == SetMin(at)
             IN  Concat(<<SubSeq(t, from, i - 1), <<" ">>,
                          CollapseBlanks(t, BlankRunEnd(t, i) + 1)>>)

\* the replacements that follow the parenthesis repair, and the final trim
AfterParenRepair(t) ==
    Trim(CollapseBlanks(
           StripAfterArrowNode(
             StripAtLineEnd(
               StripAfterBracket(
                 RemoveFences(t, 1), 1), 1), 1), 1))

sanitizeMermaidCode(code) ==
    IF code = <<>> THEN code ELSE AfterParenRepair(ParenRepair(code))

(***************************************************************************)
(* The inputs the model draws.                                             *)
(***************************************************************************)
NodeTypes ==
    {"rectangle", "diamond", "rounded", "hexagon", "parallelogram", "cylinder", "circle"}

\* the bracket pairs determineNodeType looks for, as <<open, close>>
BracketForms ==
    {<<<<"{","{">>, <<"}","}">>>>, <<<<"{">>, <<"}">>>>,
     <<<<"(","(">>, <<")",")">>>>, <<<<"[","(">>, <<")","]">>>>,
     <<<<"(","[">>, <<"]",")">>>>, <<<<"(">>, <<")">>>>,
     <<<<"[","/">>, <<"/","]">>>>, <<<<"[","\\">>, <<"\\","]">>>>,
     <<<<"[">>, <<"]">>>>}

Wrap(form, label) == form[1] \o label \o form[2]

\* label texts without a bracket character
LabelChars == {"x", "y", " "}

Labels == StringsOver(LabelChars, 1, MaxLabelLen)

\* any text: brackets balanced or not, empty pairs, no brackets
BracketChars == {"[", "]", "{", "}", "(", ")", "x", " "}

ClassifyInputs ==
    {Wrap(f, l) : f \in BracketForms, l \in Labels} \cup Labels \cup {<<>>}
        \cup StringsOver(BracketChars, 0, MaxLabelLen + 2)

(***************************************************************************)
(* determineNodeType on its own.                                           *)
(***************************************************************************)
InitClassify ==
    /\ EditorUnmounted /\ AppUnmounted
    /\ pc = "classify"
    /\ nodeDefinition \in ClassifyInputs
    /\ classified = None /\ graph = None
    /\ mermaidCode = None /\ lineNo = 0 /\ nodesMap = None /\ parsedEdges = None
    /\ result = None /\ rawCode = None /\ sanitizedCode = None
    /\ resanitizedCode = None

Classify ==
    /\ pc = "classify"
    /\ classified' = determineNodeType(nodeDefinition)
    /\ pc' = "classified"
    /\ UNCHANGED <<editorVars, appVars>>
    /\ UNCHANGED <<nodeDefinition, graph, mermaidCode, lineNo, nodesMap, parsedEdges,
                   result, rawCode, sanitizedCode, resanitizedCode>>

NextClassify == Classify

SpecClassify == InitClassify /\ [][NextClassify]_vars

(***************************************************************************)
(* parseMermaidToReactFlow, one line of lines.forEach at a time.           *)
(***************************************************************************)
ParseBegin ==
    /\ pc = "parse"
    /\ IF mermaidCode = <<>>
        THEN /\ result' = [nodes |-> <<>>, edges |-> <<>>, error |-> NoCodeError]
             /\ pc' = "done"
             /\ UNCHANGED <<lineNo, nodesMap, parsedEdges>>
        ELSE /\ lineNo' = 1
             /\ nodesMap' = <<>>
             /\ parsedEdges' = <<>>
             /\ pc' = "lines"
             /\ UNCHANGED result
    /\ UNCHANGED <<editorVars, appVars>>
    /\ UNCHANGED <<nodeDefinition, classified, graph, mermaidCode, rawCode,
                   sanitizedCode, resanitizedCode>>

ParseLine ==
    /\ pc = "lines"
    /\ lineNo <= Len(Split(mermaidCode))
    /\ LET after == parseLine(Split(mermaidCode)[lineNo], nodesMap, parsedEdges)
       IN  /\ nodesMap' = after.nodesMap
           /\ parsedEdges' = after.edges
    /\ lineNo' = lineNo + 1
    /\ UNCHANGED <<editorVars, appVars>>
    /\ UNCHANGED <<pc, nodeDefinition, classified, graph, mermaidCode, result, rawCode,
                   sanitizedCode, resanitizedCode>>

ParseEnd ==
    /\ pc = "lines"
    /\ lineNo > Len(Split(mermaidCode))
    /\ result' = ParseResult(nodesMap, parsedEdges)
    /\ pc' = "done"
    /\ UNCHANGED <<editorVars, appVars>>
    /\ UNCHANGED <<nodeDefinition, classified, graph, mermaidCode, lineNo, nodesMap,
                   parsedEdges, rawCode, sanitizedCode, resanitizedCode>>

(***************************************************************************)
(* The texts handed to the parser: texts of up to MaxLines lines drawn     *)
(* from TopologyLines, and the header followed by one line of LineShapes.  *)
(***************************************************************************)
\* an id whose first letters spell a keyword of the DSL
KeywordId == GRAPH \o <<"1">>

Ids == {<<"A">>, <<"B","_","2">>, KeywordId}

\* an id, bare or with an inline declaration
Parts(label) == Ids \cup {id \o Wrap(f, label) : id \in Ids, f \in BracketForms}

\* the six arrow forms, the labelled ones around label
Arrows(label) ==
    {<<"-","-",">","|">> \o label \o <<"|">>,
     <<"-","-"," ">> \o label \o <<" ","-","-",">">>,
     <<"-",".","-",">","|">> \o label \o <<"|">>,
     Solid, Dotted, Thick}

EdgeLine(src, arrow, tgt) == Concat(<<src, <<" ">>, arrow, <<" ">>, tgt>>)

LineShapes ==
    {EdgeLine(s, a, t) : s \in Parts(<<"x">>), a \in Arrows(<<"y">>), t \in Parts(<<"x">>)}
        \cup UNION {Parts(l) : l \in Labels}

WithHeader(line) == Header \o <<"\n">> \o Indent \o line

TopologyLines ==
    {Header, <<"%","%"," ","c">>, <<>>, <<"A"," ","-","-">>}
        \cup {id \o Wrap(f, <<"x">>) : id \in Ids,
                                       f \in {<<<<"[">>, <<"]">>>>, <<<<"{">>, <<"}">>>>}}
        \cup {EdgeLine(s, Solid, t) : s \in Ids, t \in Ids}
        \cup {EdgeLine(<<"A">>, a, <<"B","_","2">>) : a \in Arrows(<<"y">>)}
        \cup {EdgeLine(<<"A","[","x","]">>, Solid, <<"B","_","2","{","y","}">>),
              EdgeLine(<<"B","_","2","(","y",")">>, Dotted, <<"A","{","x","}">>)}

\* an edge label that holds the text trimmedLine.includes looks for
DashDotDash == <<"-",".","-">>

ParseTexts ==
    {Join(ls) : ls \in StringsOver(TopologyLines, 1, MaxLines)}
        \cup {WithHeader(l) : l \in LineShapes}
        \cup {WithHeader(EdgeLine(<<"A">>, a, <<"B","_","2">>)) : a \in Arrows(DashDotDash)}

InitParse ==
    /\ EditorUnmounted /\ AppUnmounted
    /\ pc = "parse"
    /\ mermaidCode \in ParseTexts
    /\ nodeDefinition = None /\ classified = None /\ graph = None
    /\ lineNo = 0 /\ nodesMap = None /\ parsedEdges = None
    /\ result = None /\ rawCode = None /\ sanitizedCode = None
    /\ resanitizedCode = None

NextParse == ParseBegin \/ ParseLine \/ ParseEnd

SpecParse == InitParse /\ [][NextParse]_vars

(***************************************************************************)
(* Serialize, then parse: reactFlowToMermaid on a graph of the editor,     *)
(* parseMermaidToReactFlow on the text it wrote.                           *)
(***************************************************************************)
GraphIds == Ids

NodeLabels == {<<"x">>, <<"\"">>}

EdgeLabels == {undefined, <<"y">>, <<"\"">>}

GraphNodes ==
    [id : GraphIds, type : NodeTypes, label : NodeLabels]

GraphEdges ==
    [source : GraphIds, target : GraphIds, label : EdgeLabels, animated : BOOLEAN]

UniqueIds(nodes) ==
    \A i, j \in 1..Len(nodes) : nodes[i].id = nodes[j].id => i = j

\* every edge of the editor's graph joins two of its nodes
EdgesJoinNodes(nodes, edges) ==
    \A i \in 1..Len(edges) :
        /\ \E j \in 1..Len(nodes) : nodes[j].id = edges[i].source
        /\ \E j \in 1..Len(nodes) : nodes[j].id = edges[i].target

Graphs ==
    {g \in [nodes : {ns \in StringsOver(GraphNodes, 0, MaxNodes) : UniqueIds(ns)},
             edges : StringsOver(GraphEdges, 0, MaxEdges)] :
        EdgesJoinNodes(g.nodes, g.edges)}

InitRoundTrip ==
    /\ EditorUnmounted /\ AppUnmounted
    /\ pc = "serialize"
    /\ graph \in Graphs
    /\ nodeDefinition = None /\ classified = None /\ mermaidCode = None
    /\ lineNo = 0 /\ nodesMap = None /\ parsedEdges = None
    /\ result = None /\ rawCode = None /\ sanitizedCode = None
    /\ resanitizedCode = None

Serialize ==
    /\ pc = "serialize"
    /\ mermaidCode' = reactFlowToMermaid(graph.nodes, graph.edges)
    /\ pc' = "parse"
    /\ UNCHANGED <<editorVars, appVars>>
    /\ UNCHANGED <<nodeDefinition, classified, graph, lineNo, nodesMap, parsedEdges,
                   result, rawCode, sanitizedCode, resanitizedCode>>

NextRoundTrip == Serialize \/ ParseBegin \/ ParseLine \/ ParseEnd

SpecRoundTrip == InitRoundTrip /\ [][NextRoundTrip]_vars

(***************************************************************************)
(* reactFlowToMermaid on its own, on graphs with several edges: edges that *)
(* share ends, self-loops, edges to ids the node list does not hold.       *)
(***************************************************************************)
SerNodes == [id : Ids, type : {"rectangle", "hexagon"}, label : {<<"x">>}]

SerEdgeLabels == {undefined, <<"y","|","\"">>}

SerEdges ==
    [source : {<<"A">>, <<"B","_","2">>}, target : {<<"A">>, <<"B","_","2">>},
     label : SerEdgeLabels, animated : {FALSE}]

SerGraphs ==
    [nodes : {ns \in StringsOver(SerNodes, 0, MaxSerNodes) : UniqueIds(ns)},
     edges : StringsOver(SerEdges, 0, MaxSerEdges)]

InitSerialize ==
    /\ EditorUnmounted /\ AppUnmounted
    /\ pc = "serialize"
    /\ graph \in SerGraphs
    /\ nodeDefinition = None /\ classified = None /\ mermaidCode = None
    /\ lineNo = 0 /\ nodesMap = None /\ parsedEdges = None
    /\ result = None /\ rawCode = None /\ sanitizedCode = None
    /\ resanitizedCode = None

NextSerialize == Serialize

SpecSerialize == InitSerialize /\ [][NextSerialize]_vars

(***************************************************************************)
(* reactFlowToMermaid on one node of every type whose label holds the      *)
(* characters nodeTypeToMermaidSyntax rewrites.                            *)
(***************************************************************************)
MaxSerLabelLen == 3

SerLabelChars == {"\"", "[", "]", "'", "x"}

SerLabels == StringsOver(SerLabelChars, 0, MaxSerLabelLen)

SingleNodeGraphs ==
    [nodes : {<<n>> : n \in [id : {<<"A">>}, type : NodeTypes, label : SerLabels]},
     edges : {<<>>}]

InitNodeSyntax ==
    /\ EditorUnmounted /\ AppUnmounted
    /\ pc = "serialize"
    /\ graph \in SingleNodeGraphs
    /\ nodeDefinition = None /\ classified = None /\ mermaidCode = None
    /\ lineNo = 0 /\ nodesMap = None /\ parsedEdges = None
    /\ result = None /\ rawCode = None /\ sanitizedCode = None
    /\ resanitizedCode = None

NextNodeSyntax == Serialize

SpecNodeSyntax == InitNodeSyntax /\ [][NextNodeSyntax]_vars

(***************************************************************************)
(* sanitizeMermaidCode on a raw text, and on its own output.               *)
(***************************************************************************)
\* lines every one of which the input grammar allows: the header, a node
\* declaration in each bracket form, the arrow forms
GrammarLines ==
    {Header}
        \cup {<<"A">> \o Wrap(f, <<"x">>) : f \in BracketForms}
        \cup {EdgeLine(<<"A","[","x","]">>, a, <<"B">>) : a \in Arrows(<<"y">>)}

\* a line whose label holds a run of blanks
BlankRunLines == {EdgeLine(<<"A">>, Solid, <<"B","{","x"," "," ","y","}">>)}

\* lines a text generator gets wrong: capitals trailing a closing bracket,
\* capitals alone on a line, an aside in parentheses, a code fence
MalformedLines ==
    {<<"A","[","x","]"," ","A","B">>,
     <<"A","[","x","]","A","B">>,
     <<"C","D">>,
     <<"A"," ","-","-",">"," ","B","[","x","]"," ","C","D">>,
     <<"A","[","x"," ","(","y",")"," ","z","]">>,
     <<"A","[","x"," ","(","y",")","]">>,
     <<"A","[","(","x",")"," ","(","y",")","]">>,
     <<Backtick, Backtick, Backtick>>}

RawTexts ==
    {Join(ls) : ls \in StringsOver(GrammarLines \cup BlankRunLines \cup MalformedLines, 1, MaxRawLines)}
        \cup {<<>>}

InitSanitize ==
    /\ EditorUnmounted /\ AppUnmounted
    /\ pc = "sanitize"
    /\ rawCode \in RawTexts
    /\ nodeDefinition = None /\ classified = None /\ graph = None
    /\ mermaidCode = None /\ lineNo = 0 /\ nodesMap = None /\ parsedEdges = None
    /\ result = None /\ sanitizedCode = None /\ resanitizedCode = None

Sanitize ==
    /\ pc = "sanitize"
    /\ sanitizedCode' = sanitizeMermaidCode(rawCode)
    /\ pc' = "sanitized"
    /\ UNCHANGED <<editorVars, appVars>>
    /\ UNCHANGED <<nodeDefinition, classified, graph, mermaidCode, lineNo, nodesMap,
                   parsedEdges, result, rawCode, resanitizedCode>>

SanitizeAgain ==
    /\ pc = "sanitized"
    /\ resanitizedCode' = sanitizeMermaidCode(sanitizedCode)
    /\ pc' = "resanitized"
    /\ UNCHANGED <<editorVars, appVars>>
    /\ UNCHANGED <<nodeDefinition, classified, graph, mermaidCode, lineNo, nodesMap,
                   parsedEdges, result, rawCode, sanitizedCode>>

NextSanitize == Sanitize \/ SanitizeAgain

SpecSanitize == InitSanitize /\ [][NextSanitize]_vars

(***************************************************************************)
(* sanitizeMermaidCode, one pass of its while loop at a time: sanitizedCode *)
(* is the local `sanitized`.                                               *)
(***************************************************************************)
\* characters that follow the first [ of a text given to the loop
MaxRepairLen == 5

RepairChars == {"[", "(", ")", "]"}

\* the empty text, and the texts that open a bracket
RepairTexts ==
    {<<>>} \cup {<<"[">> \o s : s \in StringsOver(RepairChars, 0, MaxRepairLen)}

\* sanitizeMermaidCode is not called yet
InitRepair ==
    /\ EditorUnmounted /\ AppUnmounted
    /\ pc = "call"
    /\ rawCode = None /\ sanitizedCode = None
    /\ nodeDefinition = None /\ classified = None /\ graph = None
    /\ mermaidCode = None /\ lineNo = 0 /\ nodesMap = None /\ parsedEdges = None
    /\ result = None /\ resanitizedCode = None

\* sanitizeMermaidCode(code): let sanitized = code
CallSanitize(code) ==
    /\ pc = "call"
    /\ rawCode' = code
    /\ sanitizedCode' = code
    /\ pc' = "repair"
    /\ UNCHANGED <<mermaidCode, editorVars, appVars>>
    /\ UNCHANGED <<nodeDefinition, classified, graph, lineNo, nodesMap, parsedEdges,
                   result, resanitizedCode>>

\* if (!code) return code
ReturnEmpty ==
    /\ pc = "repair"
    /\ rawCode = <<>>
    /\ pc' = "sanitized"
    /\ UNCHANGED <<mermaidCode, pipelineVars, editorVars, appVars>>

\* the test of the while loop holds: one replace
RepairPass ==
    /\ pc = "repair"
    /\ rawCode # <<>>
    /\ ParenTest(sanitizedCode)
    /\ sanitizedCode' = ParenPass(sanitizedCode, 1)
    /\ UNCHANGED <<pc, mermaidCode, editorVars, appVars>>
    /\ UNCHANGED <<nodeDefinition, classified, graph, lineNo, nodesMap, parsedEdges,
                   result, rawCode, resanitizedCode>>

\* the test fails: the remaining replacements, the trim, the return
RepairDone ==
    /\ pc = "repair"
    /\ rawCode # <<>>
    /\ ~ParenTest(sanitizedCode)
    /\ sanitizedCode' = AfterParenRepair(sanitizedCode)
    /\ pc' = "sanitized"
    /\ UNCHANGED <<mermaidCode, editorVars, appVars>>
    /\ UNCHANGED <<nodeDefinition, classified, graph, lineNo, nodesMap, parsedEdges,
                   result, rawCode, resanitizedCode>>

NextRepair ==
    \/ \E code \in RepairTexts : CallSanitize(code)
    \/ ReturnEmpty
    \/ RepairPass
    \/ RepairDone

SpecRepair == InitRepair /\ [][NextRepair]_vars

(***************************************************************************)
(* DiagramCanvas: the text received as the mermaidCode prop (rawCode) and  *)
(* the view shown (pc).  The interactive view hands the prop to            *)
(* ReactFlowDiagram, whose useMemo parses it (mermaidCode is the text      *)
(* parseMermaidToReactFlow was called with); the Mermaid view sanitizes    *)
(* the prop and renders the sanitized text.                                *)
(***************************************************************************)
ViewModes == {"reactflow", "mermaid", "code"}

ReceivedTexts == GrammarLines \cup MalformedLines \cup {<<>>}

InitCanvas ==
    /\ EditorUnmounted /\ AppUnmounted
    /\ pc = "reactflow"
    /\ rawCode \in ReceivedTexts
    /\ nodeDefinition = None /\ classified = None /\ graph = None
    /\ mermaidCode = None /\ lineNo = 0 /\ nodesMap = None /\ parsedEdges = None
    /\ result = None /\ sanitizedCode = None /\ resanitizedCode = None

\* a new generation result arrives as the prop
ReceiveCode ==
    /\ pc \in ViewModes
    /\ rawCode' \in ReceivedTexts \ {rawCode}
    /\ mermaidCode' = None /\ result' = None /\ sanitizedCode' = None
    /\ UNCHANGED <<editorVars, appVars>>
    /\ UNCHANGED <<pc, nodeDefinition, classified, graph, lineNo, nodesMap, parsedEdges,
                   resanitizedCode>>

SetViewMode ==
    /\ pc \in ViewModes
    /\ rawCode # <<>>
    /\ pc' \in ViewModes \ {pc}
    /\ UNCHANGED <<editorVars, appVars>>
    /\ UNCHANGED <<nodeDefinition, classified, graph, mermaidCode, lineNo, nodesMap,
                   parsedEdges, result, rawCode, sanitizedCode, resanitizedCode>>

\* <ReactFlowDiagram mermaidCode={mermaidCode}> and its useMemo
ShowReactFlow ==
    /\ pc = "reactflow"
    /\ rawCode # <<>>
    /\ mermaidCode = None
    /\ mermaidCode' = rawCode
    /\ result' = parseMermaidToReactFlow(rawCode)
    /\ UNCHANGED <<editorVars, appVars>>
    /\ UNCHANGED <<pc, nodeDefinition, classified, graph, lineNo, nodesMap, parsedEdges,
                   rawCode, sanitizedCode, resanitizedCode>>

\* the render effect of the Mermaid view
RenderMermaid ==
    /\ pc = "mermaid"
    /\ rawCode # <<>>
    /\ sanitizedCode = None
    /\ sanitizedCode' = sanitizeMermaidCode(rawCode)
    /\ UNCHANGED <<editorVars, appVars>>
    /\ UNCHANGED <<pc, nodeDefinition, classified, graph, mermaidCode, lineNo, nodesMap,
                   parsedEdges, result, rawCode, resanitizedCode>>

NextCanvas == ReceiveCode \/ SetViewMode \/ ShowReactFlow \/ RenderMermaid

SpecCanvas == InitCanvas /\ [][NextCanvas]_vars

(***************************************************************************)
(* ReactFlowDiagram inside DiagramCanvas: the interactive editor.  An      *)
(* array held in React state is [ref, items]: ref stands for the identity  *)
(* of the array, which is what React compares when it decides whether a    *)
(* state changed and whether an effect runs again.  A handler runs on the  *)
(* values of the last render; the effects of a render run before the next  *)
(* event is handled.                                                       *)
(***************************************************************************)
\* user events the editor handles
MaxEvents == 3

\* milliseconds the clock advances
MaxClock == 1

\* if (newHistory.length > 50) newHistory.shift()
HistoryLimit == 50

\* Math.min(prev + 1, 49)
LastHistoryIndex == 49

NewNodeLabel == <<"N","e","w"," ","N","o","d","e">>

\* a node and an edge as the editor holds them
EditorNode(n) == [id |-> n.id, type |-> n.type, label |-> n.label, selected |-> FALSE]

EditorEdge(e) ==
    [id |-> e.id, source |-> e.source, target |-> e.target, label |-> e.label,
     animated |-> e.animated, selected |-> FALSE]

\* the identities of the arrays something still holds
RefsInUse ==
    {editorNodes.ref, editorEdges.ref, initialGraph.nodes.ref, initialGraph.edges.ref}
        \cup {history[k].nodes.ref : k \in 1..Len(history)}
        \cup {history[k].edges.ref : k \in 1..Len(history)}
        \cup {effectDeps.reset[k].ref : k \in 1..Len(effectDeps.reset)}
        \cup {effectDeps.notify[k].ref : k \in 1..Len(effectDeps.notify)}
        \cup {currentDiagramState[k].nodes.ref : k \in 1..Len(currentDiagramState)}
        \cup {currentDiagramState[k].edges.ref : k \in 1..Len(currentDiagramState)}

\* the identity of an array just created: one nothing holds
FreshRef == SetMin((0..Cardinality(RefsInUse)) \ RefsInUse)

NewArray(items) == [ref |-> FreshRef, items |-> items]

\* useMemo(() => parseMermaidToReactFlow(mermaidCode), [mermaidCode])
\* (result holds the value of the memo)
ParsedGraph(parsed, ref) ==
    [nodes |-> [ref |-> ref,
                items |-> [i \in 1..Len(parsed.nodes) |-> EditorNode(parsed.nodes[i])]],
     edges |-> [ref |-> ref,
                items |-> [i \in 1..Len(parsed.edges) |-> EditorEdge(parsed.edges[i])]]]

\* the dependencies of the three effects in the current render
ResetDeps == <<initialGraph.nodes, initialGraph.edges>>

NotifyDeps == <<editorNodes, editorEdges>>

CanvasDeps == <<mermaidCode>>

\* a render whose effects have not run yet
EffectsDue ==
    \/ effectDeps.reset # ResetDeps
    \/ effectDeps.notify # NotifyDeps
    \/ effectDeps.canvas # CanvasDeps

\* saveToHistory: setHistory(prev => ...), with the historyIndex its closure holds
SavedHistory(closureIndex, newNodes, newEdges) ==
    IF isUndoRedoAction THEN history
    ELSE LET newHistory ==
                 Append(SubSeq(history, 1, Min2(closureIndex + 1, Len(history))),
                        [nodes |-> newNodes, edges |-> newEdges])
         IN  IF Len(newHistory) > HistoryLimit THEN Tail(newHistory) ELSE newHistory

\* saveToHistory: setHistoryIndex(prev => Math.min(prev + 1, 49))
SavedIndex ==
    IF isUndoRedoAction THEN historyIndex ELSE Min2(historyIndex + 1, LastHistoryIndex)

\* the edges left when only the selected edges are removed
RemainingEdgesUnselected(eds, selectedNodeIds) == SelectSeq(eds, LAMBDA e : ~e.selected)

\* eds.filter(e => !e.selected && !selectedNodeIds.has(e.source) && ...)
RemainingEdges(eds, selectedNodeIds) ==
    SelectSeq(eds, LAMBDA e : /\ ~e.selected
                              /\ e.source \notin selectedNodeIds
                              /\ e.target \notin selectedNodeIds)

\* `node_${Date.now()}`
NewNodeId == <<"n","o","d","e","_">> \o NumberToString(now)

\* getEdgeId of addEdge: `reactflow__edge-${source}-${target}`
NewEdgeId(source, target) ==
    Concat(<<<<"r","e","a","c","t","f","l","o","w","_","_","e","d","g","e","-">>,
             source, <<"-">>, target>>)

\* the texts the editor is given
EditorTexts ==
    {WithHeader(EdgeLine(<<"A">>, Solid, <<"B","_","2">>)), WithHeader(<<"A","[","x","]">>)}

\* the type the toolbar adds (selectedNodeType) and the type it changes to
AddedType == "rectangle"

ChangedType == "diamond"

EditorLabels == {<<"y">>}

EditorEdgeLabels == {<<"y">>}

\* DiagramCanvas is given a text and nothing is rendered yet: the memo of
\* ReactFlowDiagram parses the text first (ParseBegin, ParseLine, ParseEnd)
InitEditor ==
    /\ EditorUnmounted /\ AppUnmounted
    /\ pc = "parse"
    /\ mermaidCode \in EditorTexts
    /\ nodeDefinition = None /\ classified = None /\ graph = None
    /\ lineNo = 0 /\ nodesMap = None /\ parsedEdges = None
    /\ result = None /\ rawCode = None /\ sanitizedCode = None
    /\ resanitizedCode = None

\* a ReactFlowDiagram is mounted (its history holds the initial state at least)
Mounted == Len(history) > 0

\* the first render of DiagramCanvas and ReactFlowDiagram: the initial values
\* of their state, no effect run yet
Mount ==
    /\ pc = "done"
    /\ ~Mounted
    /\ pc' = "editor"
    /\ initialGraph' = ParsedGraph(result, 0)
    /\ editorNodes' = initialGraph'.nodes
    /\ editorEdges' = initialGraph'.edges
    /\ history' = <<[nodes |-> initialGraph'.nodes, edges |-> initialGraph'.edges]>>
    /\ historyIndex' = 0
    /\ isUndoRedoAction' = FALSE
    /\ effectDeps' = [reset |-> <<>>, notify |-> <<>>, canvas |-> <<>>]
    /\ currentDiagramState' = <<>>
    /\ isModified' = FALSE
    /\ UNCHANGED <<mermaidCode, pipelineVars, timers, now, handled, appVars>>

\* the effects of one render, in the order React runs them: the reset
\* effect and the notify effect of ReactFlowDiagram, then the reset effect
\* of DiagramCanvas; the state updates they queue are applied in that order
RunEffects ==
    /\ pc = "editor"
    /\ EffectsDue
    /\ LET runReset == effectDeps.reset # ResetDeps
           runNotify == effectDeps.notify # NotifyDeps
           runCanvas == effectDeps.canvas # CanvasDeps
           notified == runNotify /\ ~isUndoRedoAction
       IN  /\ editorNodes' = IF runReset THEN initialGraph.nodes ELSE editorNodes
           /\ editorEdges' = IF runReset THEN initialGraph.edges ELSE editorEdges
           /\ history' = IF runReset
                             THEN <<[nodes |-> initialGraph.nodes, edges |-> initialGraph.edges]>>
                             ELSE history
           /\ historyIndex' = IF runReset THEN 0 ELSE historyIndex
           /\ isUndoRedoAction' = IF runNotify THEN FALSE ELSE isUndoRedoAction
           /\ currentDiagramState' =
                  IF runCanvas THEN <<>>
                  ELSE IF notified THEN <<[nodes |-> editorNodes, edges |-> editorEdges]>>
                  ELSE currentDiagramState
           /\ isModified' = IF runCanvas THEN FALSE
                            ELSE IF notified THEN TRUE
                            ELSE isModified
    /\ effectDeps' = [reset |-> ResetDeps, notify |-> NotifyDeps, canvas |-> CanvasDeps]
    /\ UNCHANGED <<pc, mermaidCode, pipelineVars, initialGraph, timers, now, handled, appVars>>

\* App hands DiagramCanvas another text while the editor is shown
LoadCode(code) ==
    /\ pc = "editor"
    /\ ~EffectsDue
    /\ handled < MaxEvents
    /\ handled' = handled + 1
    /\ code # mermaidCode
    /\ mermaidCode' = code
    /\ pc' = "parse"
    /\ UNCHANGED <<pipelineVars, editorNodes, editorEdges, history, historyIndex,
                   isUndoRedoAction, initialGraph, effectDeps, timers, now,
                   currentDiagramState, isModified, appVars>>

\* the render with the new text: the memo has parsed it (ParseBegin, ParseLine,
\* ParseEnd) and hands on initialNodes and initialEdges, two new arrays
Rerender ==
    /\ pc = "done"
    /\ Mounted
    /\ initialGraph' = ParsedGraph(result, FreshRef)
    /\ pc' = "editor"
    /\ UNCHANGED <<mermaidCode, pipelineVars, editorNodes, editorEdges, history,
                   historyIndex, isUndoRedoAction, effectDeps, timers, now, handled,
                   currentDiagramState, isModified, appVars>>

\* Date.now() advances
Tick ==
    /\ pc = "editor"
    /\ ~EffectsDue
    /\ now < MaxClock
    /\ now' = now + 1
    /\ UNCHANGED <<pc, mermaidCode, pipelineVars, editorNodes, editorEdges, history,
                   historyIndex, isUndoRedoAction, initialGraph, effectDeps, timers,
                   currentDiagramState, isModified, handled, appVars>>

\* the items with the selected flag set for the elements of one id only
Selected(items, id) ==
    [i \in 1..Len(items) |-> [items[i] EXCEPT !.selected = (items[i].id = id)]]

\* onNodesChange and onEdgesChange with the select changes of a click on a
\* node: the node is selected, everything else is not; an array no
\* element of which changes stays the array it is
SelectNode(nodeId) ==
    /\ pc = "editor"
    /\ ~EffectsDue
    /\ handled < MaxEvents
    /\ handled' = handled + 1
    /\ Selected(editorNodes.items, nodeId) # editorNodes.items
    /\ editorNodes' = NewArray(Selected(editorNodes.items, nodeId))
    /\ editorEdges' = IF Selected(editorEdges.items, None) # editorEdges.items
                          THEN NewArray(Selected(editorEdges.items, None))
                          ELSE editorEdges
    /\ UNCHANGED <<pc, mermaidCode, pipelineVars, history, historyIndex,
                   isUndoRedoAction, initialGraph, effectDeps, timers, now,
                   currentDiagramState, isModified, appVars>>

\* the same for a click on an edge
SelectEdge(edgeId) ==
    /\ pc = "editor"
    /\ ~EffectsDue
    /\ handled < MaxEvents
    /\ handled' = handled + 1
    /\ Selected(editorEdges.items, edgeId) # editorEdges.items
    /\ editorEdges' = NewArray(Selected(editorEdges.items, edgeId))
    /\ editorNodes' = IF Selected(editorNodes.items, None) # editorNodes.items
                          THEN NewArray(Selected(editorNodes.items, None))
                          ELSE editorNodes
    /\ UNCHANGED <<pc, mermaidCode, pipelineVars, history, historyIndex,
                   isUndoRedoAction, initialGraph, effectDeps, timers, now,
                   currentDiagramState, isModified, appVars>>

\* handleLabelChange, called by EditableLabel with a label that differs
handleLabelChange(nodeId, newLabel) ==
    /\ pc = "editor"
    /\ ~EffectsDue
    /\ handled < MaxEvents
    /\ handled' = handled + 1
    /\ \E i \in 1..Len(editorNodes.items) :
           editorNodes.items[i].id = nodeId /\ editorNodes.items[i].label # newLabel
    /\ LET newNodes ==
               NewArray([i \in 1..Len(editorNodes.items) |->
                            IF editorNodes.items[i].id = nodeId
                                THEN [editorNodes.items[i] EXCEPT !.label = newLabel]
                                ELSE editorNodes.items[i]])
       IN  /\ editorNodes' = newNodes
           /\ history' = SavedHistory(historyIndex, newNodes, editorEdges)
           /\ historyIndex' = SavedIndex
    /\ UNCHANGED <<pc, mermaidCode, pipelineVars, editorEdges, isUndoRedoAction,
                   initialGraph, effectDeps, timers, now, currentDiagramState,
                   isModified, appVars>>

\* handleEdgeLabelChange
handleEdgeLabelChange(edgeId, newLabel) ==
    /\ pc = "editor"
    /\ ~EffectsDue
    /\ handled < MaxEvents
    /\ handled' = handled + 1
    /\ \E i \in 1..Len(editorEdges.items) : editorEdges.items[i].id = edgeId
    /\ LET newEdges ==
               NewArray([i \in 1..Len(editorEdges.items) |->
                            IF editorEdges.items[i].id = edgeId
                                THEN [editorEdges.items[i] EXCEPT
                                          !.label = IF newLabel = <<>> THEN undefined
                                                    ELSE newLabel]
                                ELSE editorEdges.items[i]])
       IN  /\ editorEdges' = newEdges
           /\ history' = SavedHistory(historyIndex, editorNodes, newEdges)
           /\ historyIndex' = SavedIndex
    /\ UNCHANGED <<pc, mermaidCode, pipelineVars, editorNodes, isUndoRedoAction,
                   initialGraph, effectDeps, timers, now, currentDiagramState,
                   isModified, appVars>>

\* onConnect: addEdge returns eds itself when the connection exists
onConnect(source, target) ==
    /\ pc = "editor"
    /\ ~EffectsDue
    /\ handled < MaxEvents
    /\ handled' = handled + 1
    /\ source \in {editorNodes.items[i].id : i \in 1..Len(editorNodes.items)}
    /\ target \in {editorNodes.items[i].id : i \in 1..Len(editorNodes.items)}
    /\ LET exists == \E i \in 1..Len(editorEdges.items) :
                         /\ editorEdges.items[i].source = source
                         /\ editorEdges.items[i].target = target
           newEdges ==
               IF exists THEN editorEdges
               ELSE NewArray(Append(editorEdges.items,
                                    [id |-> NewEdgeId(source, target), source |-> source,
                                     target |-> target, label |-> undefined,
                                     animated |-> FALSE, selected |-> FALSE]))
       IN  /\ editorEdges' = newEdges
           /\ history' = SavedHistory(historyIndex, editorNodes, newEdges)
           /\ historyIndex' = SavedIndex
    /\ UNCHANGED <<pc, mermaidCode, pipelineVars, editorNodes, isUndoRedoAction,
                   initialGraph, effectDeps, timers, now, currentDiagramState,
                   isModified, appVars>>

\* handleAddNode
handleAddNode(type) ==
    /\ pc = "editor"
    /\ ~EffectsDue
    /\ handled < MaxEvents
    /\ handled' = handled + 1
    /\ LET newNode == [id |-> NewNodeId, type |-> type, label |-> NewNodeLabel,
                       selected |-> FALSE]
           newNodes == NewArray(Append(editorNodes.items, newNode))
       IN  /\ editorNodes' = newNodes
           /\ history' = SavedHistory(historyIndex, newNodes, editorEdges)
           /\ historyIndex' = SavedIndex
    /\ UNCHANGED <<pc, mermaidCode, pipelineVars, editorEdges, isUndoRedoAction,
                   initialGraph, effectDeps, timers, now, currentDiagramState,
                   isModified, appVars>>

\* handleDeleteSelected: the two filters now, saveToHistory in a timer
handleDeleteSelected ==
    /\ pc = "editor"
    /\ ~EffectsDue
    /\ handled < MaxEvents
    /\ handled' = handled + 1
    /\ LET selectedNodes == SelectSeq(editorNodes.items, LAMBDA n : n.selected)
           selectedEdges == SelectSeq(editorEdges.items, LAMBDA e : e.selected)
           selectedNodeIds == {selectedNodes[i].id : i \in 1..Len(selectedNodes)}
       IN  /\ ~(Len(selectedNodes) = 0 /\ Len(selectedEdges) = 0)
           /\ editorNodes' = NewArray(SelectSeq(editorNodes.items, LAMBDA n : ~n.selected))
           /\ editorEdges' = NewArray(RemainingEdges(editorEdges.items, selectedNodeIds))
    /\ timers' = Append(timers, historyIndex)
    /\ UNCHANGED <<pc, mermaidCode, pipelineVars, history, historyIndex, isUndoRedoAction,
                   initialGraph, effectDeps, now, currentDiagramState, isModified,
                   appVars>>

\* the setTimeout callback of handleDeleteSelected: saveToHistory(nds, eds)
\* of the render in which the deletion was asked for
DeleteTimer ==
    /\ pc = "editor"
    /\ ~EffectsDue
    /\ timers # <<>>
    /\ history' = SavedHistory(Head(timers), editorNodes, editorEdges)
    /\ historyIndex' = SavedIndex
    /\ timers' = Tail(timers)
    /\ UNCHANGED <<pc, mermaidCode, pipelineVars, editorNodes, editorEdges,
                   isUndoRedoAction, initialGraph, effectDeps, now, currentDiagramState,
                   isModified, handled, appVars>>

\* handleChangeNodeType, called by the toolbar for the first selected node
handleChangeNodeType(newType) ==
    /\ pc = "editor"
    /\ ~EffectsDue
    /\ handled < MaxEvents
    /\ handled' = handled + 1
    /\ \E i \in 1..Len(editorNodes.items) : editorNodes.items[i].selected
    /\ LET first == SetMin({i \in 1..Len(editorNodes.items) : editorNodes.items[i].selected})
           nodeId == editorNodes.items[first].id
           newNodes ==
               NewArray([i \in 1..Len(editorNodes.items) |->
                            IF editorNodes.items[i].id = nodeId
                                THEN [editorNodes.items[i] EXCEPT !.type = newType]
                                ELSE editorNodes.items[i]])
       IN  /\ editorNodes' = newNodes
           /\ history' = SavedHistory(historyIndex, newNodes, editorEdges)
           /\ historyIndex' = SavedIndex
    /\ UNCHANGED <<pc, mermaidCode, pipelineVars, editorEdges, isUndoRedoAction,
                   initialGraph, effectDeps, timers, now, currentDiagramState,
                   isModified, appVars>>

\* what handleUndo and handleRedo do with newIndex: history[newIndex] is
\* read after the flag is set, and reading state.nodes of an entry that
\* does not exist throws
RestoreFrom(newIndex) ==
    /\ isUndoRedoAction' = TRUE
    /\ IF newIndex + 1 <= Len(history)
           THEN /\ editorNodes' = history[newIndex + 1].nodes
                /\ editorEdges' = history[newIndex + 1].edges
                /\ historyIndex' = newIndex
           ELSE UNCHANGED <<editorNodes, editorEdges, historyIndex>>
    /\ UNCHANGED <<pc, mermaidCode, pipelineVars, history, initialGraph, effectDeps,
                   timers, now, currentDiagramState, isModified, appVars>>

handleUndo ==
    /\ pc = "editor"
    /\ ~EffectsDue
    /\ handled < MaxEvents
    /\ handled' = handled + 1
    /\ historyIndex > 0
    /\ RestoreFrom(historyIndex - 1)

handleRedo ==
    /\ pc = "editor"
    /\ ~EffectsDue
    /\ handled < MaxEvents
    /\ handled' = handled + 1
    /\ historyIndex < Len(history) - 1
    /\ RestoreFrom(historyIndex + 1)

\* the ids of the nodes and of the edges the editor shows
EditorNodeIds ==
    IF pc = "editor" THEN {editorNodes.items[i].id : i \in 1..Len(editorNodes.items)} ELSE {}

EditorEdgeIds ==
    IF pc = "editor" THEN {editorEdges.items[i].id : i \in 1..Len(editorEdges.items)} ELSE {}

NextEditor ==
    \/ ParseBegin
    \/ ParseLine
    \/ ParseEnd
    \/ Mount
    \/ Rerender
    \/ RunEffects
    \/ \E code \in EditorTexts : LoadCode(code)
    \/ Tick
    \/ \E nodeId \in EditorNodeIds : SelectNode(nodeId)
    \/ \E edgeId \in EditorEdgeIds : SelectEdge(edgeId)
    \/ \E nodeId \in EditorNodeIds : \E newLabel \in EditorLabels :
           handleLabelChange(nodeId, newLabel)
    \/ \E edgeId \in EditorEdgeIds : \E newLabel \in EditorEdgeLabels :
           handleEdgeLabelChange(edgeId, newLabel)
    \/ \E source, target \in EditorNodeIds : onConnect(source, target)
    \/ handleAddNode(AddedType)
    \/ handleDeleteSelected
    \/ DeleteTimer
    \/ handleChangeNodeType(ChangedType)
    \/ handleUndo
    \/ handleRedo

SpecEditor == InitEditor /\ [][NextEditor]_vars

\* DiagramCanvas: the text that copy, download and the code view use
displayCode ==
    IF isModified /\ currentDiagramState # <<>>
    THEN reactFlowToMermaid(currentDiagramState[1].nodes.items,
                            currentDiagramState[1].edges.items)
    ELSE mermaidCode

(***************************************************************************)
(* App: generationState, viewMode and the generation requests whose        *)
(* response has not arrived (pending holds their prompts, oldest first).   *)
(***************************************************************************)
\* requests in flight at once
MaxPending == 2

\* prompts typed in the sidebar, texts the service answers with, diagrams
\* kept in the history
Prompts == {<<"p">>, <<"q">>, <<"r">>}

Responses == {<<"A","[","x","]">>, <<"A","[","y","]">>}

StoredDiagrams ==
    {[id |-> <<"1">>, mermaid_code |-> <<"B","[","x","]">>, original_prompt |-> <<"s">>],
     [id |-> <<"2">>, mermaid_code |-> <<"A","[","x","]">>, original_prompt |-> <<"p">>]}

GenerationFailed == <<"G","e","n","e","r","a","t","i","o","n"," ","f","a","i","l","e","d">>

\* the sequence without its k-th element
RemoveAt(seq, k) == SubSeq(seq, 1, k - 1) \o SubSeq(seq, k + 1, Len(seq))

InitApp ==
    /\ EditorUnmounted
    /\ pc = "app"
    /\ mermaidCode = None
    /\ nodeDefinition = None /\ classified = None /\ graph = None
    /\ lineNo = 0 /\ nodesMap = None /\ parsedEdges = None
    /\ result = None /\ rawCode = None /\ sanitizedCode = None
    /\ resanitizedCode = None
    /\ viewMode = "main"
    /\ generationState = [isLoading |-> FALSE, result |-> None, error |-> None,
                          originalPrompt |-> undefined, diagramId |-> undefined]
    /\ pending = <<>>

\* handleGenerate up to its await; the button is enabled by canGenerate
handleGenerate(prompt) ==
    /\ viewMode = "main"
    /\ ~generationState.isLoading
    /\ Len(pending) < MaxPending
    /\ generationState' = [isLoading |-> TRUE, result |-> None, error |-> None,
                           originalPrompt |-> prompt, diagramId |-> undefined]
    /\ pending' = Append(pending, prompt)
    /\ UNCHANGED <<pc, mermaidCode, pipelineVars, editorVars, viewMode>>

\* handleGenerate after its await: the response of the k-th request arrives
GenerationSucceeds(k, code) ==
    /\ k \in 1..Len(pending)
    /\ generationState' = [isLoading |-> FALSE, result |-> code, error |-> None,
                           originalPrompt |-> pending[k], diagramId |-> undefined]
    /\ viewMode' = "main"
    /\ pending' = RemoveAt(pending, k)
    /\ UNCHANGED <<pc, mermaidCode, pipelineVars, editorVars>>

\* handleGenerate, the catch branch
GenerationFails(k) ==
    /\ k \in 1..Len(pending)
    /\ generationState' = [isLoading |-> FALSE, result |-> None, error |-> GenerationFailed,
                           originalPrompt |-> pending[k], diagramId |-> undefined]
    /\ pending' = RemoveAt(pending, k)
    /\ UNCHANGED <<pc, mermaidCode, pipelineVars, editorVars, viewMode>>

\* handleLoadDiagram, called by DiagramHistory
handleLoadDiagram(diagram) ==
    /\ viewMode = "history"
    /\ generationState' = [isLoading |-> FALSE, result |-> diagram.mermaid_code,
                           error |-> None, originalPrompt |-> diagram.original_prompt,
                           diagramId |-> diagram.id]
    /\ viewMode' = "main"
    /\ UNCHANGED <<pc, mermaidCode, pipelineVars, editorVars, pending>>

handleShowHistory ==
    /\ viewMode = "main"
    /\ viewMode' = "history"
    /\ UNCHANGED <<pc, mermaidCode, pipelineVars, editorVars, generationState, pending>>

handleCloseHistory ==
    /\ viewMode = "history"
    /\ viewMode' = "main"
    /\ UNCHANGED <<pc, mermaidCode, pipelineVars, editorVars, generationState, pending>>

NextApp ==
    \/ \E prompt \in Prompts : handleGenerate(prompt)
    \/ \E k \in 1..MaxPending : \E code \in Responses : GenerationSucceeds(k, code)
    \/ \E k \in 1..MaxPending : GenerationFails(k)
    \/ \E diagram \in StoredDiagrams : handleLoadDiagram(diagram)
    \/ handleShowHistory
    \/ handleCloseHistory

SpecApp == InitApp /\ [][NextApp]_vars

(***************************************************************************)
(* The properties checked.                                                 *)
(***************************************************************************)
\* the node type section 4.1 of the specification gives each bracket pair
ClaimedType(form) ==
    IF form[1] = <<"{","{">> THEN "hexagon"
    ELSE IF form[1] = <<"{">> THEN "diamond"
    ELSE IF form[1] = <<"(","(">> THEN "circle"
    ELSE IF form[1] = <<"[","(">> THEN "cylinder"
    ELSE IF form[1] \in {<<"(","[">>, <<"(">>} THEN "rounded"
    ELSE IF form[1] \in {<<"[","/">>, <<"[","\\">>} THEN "parallelogram"
    ELSE "rectangle"

NodeTriples(nodes) == {<<nodes[i].id, nodes[i].type, nodes[i].label>> : i \in 1..Len(nodes)}

EdgeTriples(edges) == {<<edges[i].source, edges[i].target, edges[i].label>> : i \in 1..Len(edges)}

NodeIdsOf(nodes) == {nodes[i].id : i \in 1..Len(nodes)}

IsWord(id) == id # <<>> /\ \A i \in 1..Len(id) : id[i] \in WordChars

\* C1: for every graph with unique node ids that match \w+ and non-empty
\* labels, the graph parsed from its serialization has exactly the graph's
\* (id, type, label) triples.
NodeRoundTrip ==
    (/\ pc = "done"
     /\ Len(graph.nodes) > 0
     /\ UniqueIds(graph.nodes)
     /\ \A i \in 1..Len(graph.nodes) :
            IsWord(graph.nodes[i].id) /\ graph.nodes[i].label # <<>>)
        => NodeTriples(result.nodes) = NodeTriples(graph.nodes)

\* C2: for every graph with unique node ids and no duplicate edges, the
\* graph parsed from its serialization has exactly the graph's (source,
\* target, label) triples: an absent label absent, a present one unchanged.
EdgeRoundTrip ==
    (/\ pc = "done"
     /\ Len(graph.nodes) > 0
     /\ UniqueIds(graph.nodes)
     /\ \A i, j \in 1..Len(graph.edges) :
            EdgeTriples(<<graph.edges[i]>>) = EdgeTriples(<<graph.edges[j]>>) => i = j
     /\ \A i \in 1..Len(graph.edges) :
            /\ graph.edges[i].source \in NodeIdsOf(graph.nodes)
            /\ graph.edges[i].target \in NodeIdsOf(graph.nodes))
        => EdgeTriples(result.edges) = EdgeTriples(graph.edges)

\* C3: for every non-empty label text L without a bracket character,
\* determineNodeType maps each of the nine bracket pairs around L to the
\* type section 4.1 gives that pair, with the label L trimmed.
BracketPrecedence ==
    pc = "classified" =>
        \A f \in BracketForms, l \in Labels :
            nodeDefinition = Wrap(f, l) =>
                classified = [type |-> ClaimedType(f), label |-> Trim(l)]

\* C4: a text whose only content line is an id followed by a bracket pair
\* around L registers exactly one node, with that id, the pair's type and
\* the label L, and the line scan hands the classifier the whole pair.
NodeDeclarationScan ==
    pc = "done" =>
        \A id \in Ids, f \in BracketForms, l \in Labels :
            mermaidCode = WithHeader(id \o Wrap(f, l)) =>
                /\ Len(result.nodes) = 1
                /\ NodeTriples(result.nodes) = {<<id, ClaimedType(f), Trim(l)>>}
                /\ NodeDefMatch(id \o Wrap(f, l), 1).nodeDefinition = Wrap(f, l)

\* C5: sanitizing the sanitizer's output changes nothing.
SanitizerIdempotent ==
    pc = "resanitized" => resanitizedCode = sanitizedCode

\* C6: for every text whose lines are all lines of the input grammar, the
\* sanitized text parses to the same nodes (id, type, label) and the same
\* edges as the text itself.
SanitizerPreservesWellFormed ==
    (/\ pc = "sanitized"
     /\ \A i \in 1..Len(Split(rawCode)) : Split(rawCode)[i] \in GrammarLines)
        => /\ NodeTriples(parseMermaidToReactFlow(sanitizedCode).nodes)
                = NodeTriples(parseMermaidToReactFlow(rawCode).nodes)
           /\ EdgeTriples(parseMermaidToReactFlow(sanitizedCode).edges)
                = EdgeTriples(parseMermaidToReactFlow(rawCode).edges)

\* C7: in every graph parseMermaidToReactFlow returns, the source and the
\* target of every edge are ids of returned nodes.
NoDanglingEdges ==
    pc = "done" =>
        \A i \in 1..Len(result.edges) :
            /\ result.edges[i].source \in NodeIdsOf(result.nodes)
            /\ result.edges[i].target \in NodeIdsOf(result.nodes)

\* a graph is returned with an edge one of whose ends no line declared
SynthesizedEndReturned ==
    /\ pc = "done"
    /\ \E i \in 1..Len(result.edges) :
          \E j \in 1..Len(result.nodes) :
              /\ result.nodes[j].id = result.edges[i].target
              /\ result.nodes[j].label = result.nodes[j].id
              /\ ~Includes(mermaidCode, result.nodes[j].id \o <<"{">>)
              /\ ~Includes(mermaidCode, result.nodes[j].id \o <<"[">>)
              /\ ~Includes(mermaidCode, result.nodes[j].id \o <<"(">>)

\* C8: during a parse a line never changes the type or label of an id that
\* is already in the node table, and the graph returned has one node per
\* id, the node of the table.
FirstDeclarationWins ==
    [][/\ (pc = "lines" /\ pc' = "lines") =>
              \A i \in 1..Len(nodesMap) :
                  /\ MapHas(nodesMap', nodesMap[i].id)
                  /\ MapGet(nodesMap', nodesMap[i].id) = nodesMap[i]
       /\ (pc = "lines" /\ pc' = "done") =>
              /\ UniqueIds(result'.nodes)
              /\ NodeTriples(result'.nodes) = NodeTriples(nodesMap)
              /\ Len(result'.nodes) = Len(nodesMap)]_vars

\* a line has just declared anew, with another type, an id the table held
RedeclarationParsed ==
    /\ pc = "lines"
    /\ lineNo >= 3
    /\ LET t == Trim(Split(mermaidCode)[lineNo - 1])
           before == ParseLines(Split(mermaidCode), lineNo - 2).nodesMap
       IN  /\ ~SkippedLine(t)
           /\ NodeDefStarts(t, 1) # {}
           /\ MapHas(before, NodeDefMatch(t, 1).nodeId)
           /\ determineNodeType(NodeDefMatch(t, 1).nodeDefinition).type
                 # MapGet(before, NodeDefMatch(t, 1).nodeId).type

BareSolidLine(a, b) == EdgeLine(a, Solid, b)

\* C9: the header followed by a line `a --> b` yields, for both ids, a
\* rectangle node labelled with the id and nothing else, and exactly one
\* edge, from a to b, its label absent and animated false.
AutoSynthesis ==
    pc = "done" =>
        \A a, b \in Ids :
            mermaidCode = WithHeader(BareSolidLine(a, b)) =>
                /\ NodeTriples(result.nodes) = {<<a, "rectangle", a>>, <<b, "rectangle", b>>}
                /\ Len(result.nodes) = Cardinality({a, b})
                /\ Len(result.edges) = 1
                /\ EdgeTriples(result.edges) = {<<a, b, undefined>>}
                /\ result.edges[1].animated = FALSE

\* C10: a line `X<decl1> -->|L| Y<decl2>` registers X and Y with the type
\* and label of their inline declarations and records exactly one edge,
\* from X to Y with label L.
LabeledEdgeInline ==
    pc = "done" =>
        \A x, y \in Ids, f1, f2 \in BracketForms :
            (/\ x # y
             /\ mermaidCode = WithHeader(EdgeLine(x \o Wrap(f1, <<"x">>),
                                                  <<"-","-",">","|","y","|">>,
                                                  y \o Wrap(f2, <<"x">>))))
                => /\ NodeTriples(result.nodes) = {<<x, ClaimedType(f1), <<"x">>>>,
                                                   <<y, ClaimedType(f2), <<"x">>>>}
                   /\ Len(result.edges) = 1
                   /\ EdgeTriples(result.edges) = {<<x, y, <<"y">>>>}

\* C11: for a non-empty text parseMermaidToReactFlow returns the no-nodes
\* error, with no node and no edge, exactly when the node table is empty
\* after the last line; otherwise it returns no error and at least one node.
NoNodesOnlyFailure ==
    (pc = "done" /\ mermaidCode # <<>>) =>
        /\ result.error \in {NoNodesError, NoError}
        /\ (result.error = NoNodesError) <=> (nodesMap = <<>>)
        /\ (nodesMap = <<>>) => (result.nodes = <<>> /\ result.edges = <<>>)
        /\ (nodesMap # <<>>) =>
              /\ Len(result.nodes) >= 1
              /\ NodeIdsOf(result.nodes) = NodeIdsOf(nodesMap)

\* the header and a comment line have been parsed into the no-nodes error
CommentOnlyFails ==
    /\ pc = "done"
    /\ mermaidCode = Join(<<Header, <<"%","%"," ","c">>>>)
    /\ result.error = NoNodesError

\* C12: every text parseMermaidToReactFlow is called with has first been
\* through the sanitizer: it is the sanitizer's output for the text
\* received; and the node list returned is the layout of the parsed nodes.
SanitizeBeforeParse ==
    mermaidCode # None =>
        /\ sanitizedCode # None
        /\ mermaidCode = sanitizedCode
        /\ result.error = NoError =>
              NodeIdsOf(result.nodes)
                  = NodeIdsOf(ParseLines(Split(mermaidCode), Len(Split(mermaidCode))).nodesMap)

\* C13: a line that begins with an id and a bracket pair is processed and
\* registers that node, whatever the id, also an id whose first letters
\* spell a keyword of the DSL.
KeywordIdsRegistered ==
    pc = "done" =>
        \A id \in Ids, f \in BracketForms :
            mermaidCode = WithHeader(id \o Wrap(f, <<"x">>)) =>
                /\ result.error = NoError
                /\ id \in NodeIdsOf(result.nodes)

\* a [ ... ] label of t, with no ] inside, that encloses a ( ... ) group
EnclosesParenGroup(t) ==
    \E i \in 1..Len(t) :
        /\ t[i] = "["
        /\ LET e == IndexOf(t, "]", i + 1)
           IN  \E p \in (i + 1)..(e - 1) :
                   t[p] = "(" /\ \E c \in (p + 1)..(e - 1) : t[c] = ")"

HasParen(label) == \E k \in 1..Len(label) : label[k] \in {"(", ")"}

\* C14: the sanitizer's output has no square-bracket label that encloses
\* a parenthesis group; `A[x (y) z]` becomes `A[x z - y]`, and the node
\* parsed from the sanitized `A[x (y)]` has a label without ( and ).
ParenthesisRepair ==
    pc \in {"sanitized", "resanitized"} =>
        /\ ~EnclosesParenGroup(sanitizedCode)
        /\ rawCode = <<"A","[","x"," ","(","y",")"," ","z","]">>
              => sanitizedCode = <<"A","[","x"," ","z"," ","-"," ","y","]">>
        /\ rawCode \in {<<"A","[","x"," ","(","y",")","]">>,
                        <<"A","[","x"," ","(","y",")"," ","z","]">>,
                        <<"A","[","(","x",")"," ","(","y",")","]">>}
              => LET nodes == parseMermaidToReactFlow(sanitizedCode).nodes
                 IN  /\ NodeIdsOf(nodes) = {<<"A">>}
                     /\ nodes[1].type = "rectangle"
                     /\ ~HasParen(nodes[1].label)

\* a label with two parenthesis groups has been sanitized
TwoAsidesRepaired ==
    /\ pc = "sanitized"
    /\ rawCode = <<"A","[","(","x",")"," ","(","y",")","]">>
    /\ sanitizedCode = <<"A","[","-"," ","y"," ","-"," ","x","]">>

\* C15: every edge of the graph parsed from the serialization of g has the
\* animated flag of the edge of g with the same source and target.
AnimatedRoundTrip ==
    pc = "done" =>
        \A i \in 1..Len(result.edges), j \in 1..Len(graph.edges) :
            (/\ result.edges[i].source = graph.edges[j].source
             /\ result.edges[i].target = graph.edges[j].target)
                => result.edges[i].animated = graph.edges[j].animated

\* s is not one of the nine bracket pairs around a non-empty text
NoDelimiterPair(s) ==
    \A f \in BracketForms :
        ~(/\ Len(s) > Len(f[1]) + Len(f[2])
          /\ StartsWith(s, f[1])
          /\ EndsWith(s, f[2]))

\* C17: for every string determineNodeType returns a type that is one of
\* the seven node types, and a string that is no bracket pair around a
\* text yields rectangle with the string trimmed as label.
ClassifierTotal ==
    pc = "classified" =>
        /\ DOMAIN classified = {"type", "label"}
        /\ classified.type \in NodeTypes
        /\ NoDelimiterPair(nodeDefinition) =>
              classified = [type |-> "rectangle", label |-> Trim(nodeDefinition)]

\* an empty bracket pair has been classified
EmptyPairClassified ==
    /\ pc = "classified"
    /\ nodeDefinition = <<"[", "]">>
    /\ classified = [type |-> "rectangle", label |-> <<"[", "]">>]

\* the positions of t at which the text w stands
Occurrences(t, w) == {i \in 1..Len(t) : HasAt(t, i, w)}

\* the serializer has written the text of a graph that has nodes
Serialized == pc = "parse" /\ Len(graph.nodes) > 0

\* C18: in the text written for a graph with unique ids every node's
\* declaration id<bracket-pair> stands exactly once, at the first place the
\* id stands, and every later place holds the bare id.
DeclaredOnce ==
    Serialized =>
        \A k \in 1..Len(graph.nodes) :
            LET id == graph.nodes[k].id
                at == Occurrences(mermaidCode, id)
            IN  /\ at # {}
                /\ Occurrences(mermaidCode, NodeDefinitionText(graph.nodes[k])) = {SetMin(at)}
                /\ \A i \in at \ {SetMin(at)} :
                       \/ i + Len(id) > Len(mermaidCode)
                       \/ mermaidCode[i + Len(id)] \notin Openers

\* a self-loop has been written: the declaration, then the bare id
SelfLoopSerialized ==
    /\ Serialized
    /\ Len(graph.edges) >= 1
    /\ graph.edges[1].source = <<"A">> /\ graph.edges[1].target = <<"A">>
    /\ Cardinality(Occurrences(mermaidCode, <<"A">>)) >= 2

\* the edges of g both of whose ends are nodes of g, in the list's order
EmittedEdges(g) ==
    SelectSeq(g.edges, LAMBDA e : e.source \in NodeIdsOf(g.nodes) /\ e.target \in NodeIdsOf(g.nodes))

\* the nodes of g that no emitted edge touches, in the list's order
Orphans(g) ==
    SelectSeq(g.nodes, LAMBDA n :
        \A i \in 1..Len(EmittedEdges(g)) :
            EmittedEdges(g)[i].source # n.id /\ EmittedEdges(g)[i].target # n.id)

EdgeLabelEscaped ==
    (/\ Serialized
     /\ Len(graph.edges) = 1
     /\ Len(EmittedEdges(graph)) = 1
     /\ graph.edges[1].label # undefined)
        => LET line == Split(mermaidCode)[2]
               edge == graph.edges[1]
               opening == Concat(<<Indent, GetDefinition(graph.nodes, edge.source),
                                   <<" ","-","-",">","|">>>>)
               closing == <<"|"," ">> \o
                          (IF edge.target = edge.source THEN edge.target
                           ELSE GetDefinition(graph.nodes, edge.target))
               text == SubSeq(line, Len(opening) + 1, Len(line) - Len(closing))
           IN  /\ StartsWith(line, opening)
               /\ EndsWith(line, closing)
               /\ \A i \in 1..Len(text) : text[i] \notin {"|", "\""}

\* the bracket pair the serializer writes for a node type, as <<open, close>>
PairOf(type) ==
    CHOOSE form \in BracketForms \ {<<<<"(","[">>, <<"]",")">>>>, <<<<"[","\\">>, <<"\\","]">>>>} :
        ClaimedType(form) = type

\* the text written between the bracket pair of the one node of the graph
EmittedLabel ==
    LET line == Split(mermaidCode)[2]
        open == Indent \o graph.nodes[1].id \o PairOf(graph.nodes[1].type)[1]
        close == PairOf(graph.nodes[1].type)[2]
    IN  IF StartsWith(line, open) /\ EndsWith(line, close)
            /\ Len(line) >= Len(open) + Len(close)
        THEN SubSeq(line, Len(open) + 1, Len(line) - Len(close))
        ELSE None

\* C21: for every node type and every label, the text written inside the
\* bracket pair has no double quote, no [ and no ]; a non-empty label is
\* written character by character, with " as ', [ as ( and ] as ), and
\* every other character as it is.
NodeLabelEscaped ==
    (pc = "parse" /\ Len(graph.nodes) = 1 /\ Len(graph.edges) = 0) =>
        LET label == graph.nodes[1].label
            text == EmittedLabel
        IN  /\ text # None
            /\ \A i \in 1..Len(text) : text[i] \notin {"\"", "[", "]"}
            /\ label # <<>> =>
                   /\ Len(text) = Len(label)
                   /\ \A i \in 1..Len(label) :
                          text[i] = CASE label[i] = "\"" -> "'"
                                      [] label[i] = "[" -> "("
                                      [] label[i] = "]" -> ")"
                                      [] OTHER -> label[i]

\* a hexagon whose label holds the three rewritten characters has been written
BracketLabelSerialized ==
    /\ pc = "parse"
    /\ Len(graph.nodes) = 1
    /\ graph.nodes[1].type = "hexagon"
    /\ graph.nodes[1].label = <<"[", "\"", "]">>
    /\ EmittedLabel = <<"(", "'", ")">>

\* C22: the header followed by one line `a<decl> arrow b<decl>`, the arrow
\* one of the six arrow forms, yields exactly one edge, whose source is the
\* id left of the arrow and whose target is the id right of it.
OneEdgePerArrowLine ==
    pc = "done" =>
        \A a, b \in Ids :
            \A da, db \in {<<>>} \cup {Wrap(f, <<"x">>) : f \in BracketForms} :
                \A arrow \in Arrows(<<"y">>) :
                    mermaidCode = WithHeader(EdgeLine(a \o da, arrow, b \o db)) =>
                        /\ Len(result.edges) = 1
                        /\ result.edges[1].source = a
                        /\ result.edges[1].target = b

\* the arrow forms with a dotted connector, around label
DottedArrows(label) == {Dotted, <<"-",".","-",">","|">> \o label \o <<"|">>}

\* C23: the edge recorded for an arrow line has animated = TRUE exactly
\* when the arrow is one of the dotted forms; the solid and thick forms
\* give animated = FALSE whatever the label text is.
AnimatedIffDotted ==
    pc = "done" =>
        \A a, b \in Ids :
            \A da, db \in {<<>>} \cup {Wrap(f, <<"x">>) : f \in BracketForms} :
                \A label \in {<<"y">>, DashDotDash} :
                    \A arrow \in Arrows(label) :
                        mermaidCode = WithHeader(EdgeLine(a \o da, arrow, b \o db)) =>
                            \A i \in 1..Len(result.edges) :
                                result.edges[i].animated = (arrow \in DottedArrows(label))

\* C24: whatever edits were applied to the parsed graph (add node, delete
\* selected, relabel, retype, connect, undo, redo), no two nodes of the
\* editor's node list share an id, also when two nodes are added within
\* the same millisecond of the clock.
UniqueNodeIdsUnderEditing == Mounted => UniqueIds(editorNodes.items)

\* C26: whatever edits were applied (connect, delete selected nodes or
\* edges, undo, redo), every edge of the editor's edge list has a source and
\* a target that are ids of nodes of the editor's node list; a deleted node
\* takes the edges incident to it with it.
NoDanglingEdgesUnderEditing ==
    Mounted => \A i \in 1..Len(editorEdges.items) :
                   /\ editorEdges.items[i].source \in NodeIdsOf(editorNodes.items)
                   /\ editorEdges.items[i].target \in NodeIdsOf(editorNodes.items)

\* a node was deleted and its edge went with it, then undo brought both back
DeletedNodeUndone ==
    /\ Mounted
    /\ ~EffectsDue
    /\ Len(history) = 2
    /\ historyIndex = 0
    /\ Len(history[2].nodes.items) < Len(history[1].nodes.items)
    /\ Len(history[1].edges.items) = 1
    /\ history[2].edges.items = <<>>
    /\ editorNodes.items = history[1].nodes.items
    /\ editorEdges.items = history[1].edges.items

\* the editor shows the graph parsed from the text it was given and nothing
\* was done to it since: no entry was added to the history, no timer waits
NoEditSinceLoad ==
    /\ editorNodes = initialGraph.nodes
    /\ editorEdges = initialGraph.edges
    /\ history = <<[nodes |-> initialGraph.nodes, edges |-> initialGraph.edges]>>
    /\ historyIndex = 0
    /\ timers = <<>>

\* C27: from the load of a text to the first edit in the interactive view,
\* isModified is false, and copy, download and the code view give the text
\* that was loaded.
UnmodifiedUntilEdit ==
    (pc = "editor" /\ ~EffectsDue /\ NoEditSinceLoad)
        => ~isModified /\ displayCode = mermaidCode

\* C28: when the effects of the render that follows an undo or a redo have
\* run, the diagram state last delivered to onDiagramChange holds the nodes
\* and the edges the editor shows.
ParentFollowsUndoRedo ==
    [][(isUndoRedoAction /\ ~isUndoRedoAction')
          => /\ currentDiagramState' # <<>>
             /\ currentDiagramState'[1].nodes.items = editorNodes'.items
             /\ currentDiagramState'[1].edges.items = editorEdges'.items]_vars

\* C29: whatever edits, undos and redos were made, two history saves issued
\* from one render included, 0 <= historyIndex < history.length <= 50, so
\* history[historyIndex] exists.
HistoryBounds ==
    Mounted => /\ 0 <= historyIndex
               /\ historyIndex < Len(history)
               /\ Len(history) <= HistoryLimit

\* the parenthesis pairs inside bracket labels: the ( that have a [ before
\* them and, after them, a ) followed by a ]
LabelParens(t) ==
    {p \in 1..Len(t) :
        /\ t[p] = "("
        /\ \E i \in 1..(p - 1) : t[i] = "["
        /\ \E c \in (p + 1)..Len(t) : t[c] = ")" /\ \E e \in (c + 1)..Len(t) : t[e] = "]"}

\* the ( of the text
OpenParens(t) == {i \in 1..Len(t) : t[i] = "("}

\* C25: on every text sanitizeMermaidCode returns a string, and every pass
\* of its parenthesis repair loop leaves strictly fewer parenthesis pairs
\* inside bracket labels (and fewer parentheses in the text) than it found,
\* so the loop ends after at most as many passes as the text has pairs.
SanitizerTerminates ==
    [][/\ (pc = "repair" /\ pc' = "repair")
             => /\ Cardinality(LabelParens(sanitizedCode'))
                      < Cardinality(LabelParens(sanitizedCode))
                /\ Cardinality(OpenParens(sanitizedCode'))
                      < Cardinality(OpenParens(sanitizedCode))
       /\ pc' = "sanitized"
             => \A i \in 1..Len(sanitizedCode') :
                    sanitizedCode'[i] \in RepairChars \cup {" ", "-"}]_vars

\* the function has returned from a text on which the loop ran twice
RepairedInTwoPasses ==
    /\ pc = "sanitized"
    /\ ParenTest(rawCode)
    /\ ParenTest(ParenPass(rawCode, 1))

\* C30: the diagram in generationState comes from the action started last:
\* isLoading is true while a generation request is in flight, and a response
\* that arrives when App is showing something newer (a diagram loaded from
\* the history, or the wait for a later request) leaves generationState as
\* it is.
LatestActionWins ==
    [][/\ pending' # <<>> => generationState'.isLoading
       /\ \A k \in 1..Len(pending) :
              (pending' = RemoveAt(pending, k)
                  /\ ~(generationState.isLoading /\ k = Len(pending)))
                  => generationState' = generationState]_vars

====
